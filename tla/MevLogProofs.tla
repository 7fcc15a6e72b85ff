--------------------------- MODULE MevLogProofs ---------------------------
(***************************************************************************)
(* The MEV log is written in causal order, and a banking thread dies of it *)
(* only for a reason, for every number of banking threads and batches.     *)
(***************************************************************************)
EXTENDS MevLog, SequenceTheorems, TLAPS

Report == [kind : {"Log", "Opportunities", "ExecutedTransaction"}, thread : Threads, batch : Nat]

\* What a report follows from is in S.
FollowsFrom(m, S) ==
    /\ m.kind # "Log" => [m EXCEPT !.kind = "Log"] \in S
    /\ m.kind = "ExecutedTransaction" => [m EXCEPT !.kind = "Opportunities"] \in S

Written == {file[j] : j \in 1..Len(file)}
Waiting(n) == {log_channel[j] : j \in 1..n}
Sent == Written \cup Waiting(Len(log_channel))

LogTypes ==
    /\ log_channel \in Seq(Report \cup {Exit}) /\ file \in Seq(Report)
    /\ batches \in [Threads -> Nat]
    /\ pc \in [Threads -> {"loop", "log", "opportunities", "mev", "executed", "ended", "panicked"}]
    /\ log_thread \in {"running", "ended", "panicked"}

\* As long as the log thread runs, what waits follows from what is written or
\* waits before it, and a banking thread has sent what its next message follows
\* from.
ChannelInv ==
    log_thread = "running" =>
        \A i \in 1..Len(log_channel) : log_channel[i] # Exit =>
            FollowsFrom(log_channel[i], Written \cup Waiting(i - 1))
PcInv ==
    log_thread = "running" =>
        \A th \in Threads :
            /\ pc[th] \in {"opportunities", "mev", "executed"} => Msg("Log", th) \in Sent
            /\ pc[th] \in {"mev", "executed"} => Msg("Opportunities", th) \in Sent
FileInv == \A i \in 1..Len(file) : FollowsFrom(file[i], {file[j] : j \in 1..(i - 1)})

\* Validator::join has sent Exit.
ExitSent == join_pc \in {"tpu", "mev_log", "returned"}
ExitInv ==
    /\ (\E i \in 1..Len(log_channel) : log_channel[i] = Exit) => ExitSent \/ log_thread = "panicked"
    /\ log_thread = "ended" => ExitSent

LogInv == LogTypes /\ ChannelInv /\ PcInv /\ FileInv /\ ExitInv /\ PanicHasCause

----------------------------------------------------------------------------
LEMMA FollowsFromMore ==
    ASSUME NEW m, NEW S, NEW T, S \subseteq T, FollowsFrom(m, S)
    PROVE  FollowsFrom(m, T)
BY DEF FollowsFrom

LEMMA MsgIsReport ==
    ASSUME LogTypes, NEW th \in Threads, NEW kind \in {"Log", "Opportunities", "ExecutedTransaction"}
    PROVE  Msg(kind, th) \in Report /\ Msg(kind, th) # Exit
<1>1. Msg(kind, th).kind = kind
  BY DEF Msg
<1>2. Exit.kind = "Exit"
  BY DEF Exit
<1> QED BY <1>1, <1>2 DEF Msg, Report, LogTypes

(* Sending a message whose causes were sent keeps the order of the channel *)
(* and loses nothing that was sent.                                        *)
LEMMA SendKeepsOrder ==
    ASSUME LogTypes, ChannelInv, NEW msg \in Report \cup {Exit}, Send(msg),
           UNCHANGED <<file, log_thread>>,
           log_thread = "running" /\ msg # Exit => FollowsFrom(msg, Sent)
    PROVE  /\ log_channel' \in Seq(Report \cup {Exit}) /\ ChannelInv' /\ Sent \subseteq Sent'
           /\ log_thread = "running" => msg \in Sent'
           /\ \A i \in 1..Len(log_channel') : log_channel'[i] = Exit =>
                 msg = Exit \/ \E j \in 1..Len(log_channel) : log_channel[j] = Exit
<1>1. CASE log_thread # "running"
  BY <1>1 DEF Send, Connected, LogTypes, ChannelInv, Sent, Written, Waiting
<1>2. CASE log_thread = "running"
  <2>1. log_channel' = Append(log_channel, msg) /\ file' = file /\ log_thread' = log_thread
    BY <1>2 DEF Send, Connected
  <2>2. log_channel \in Seq(Report \cup {Exit}) /\ Len(log_channel) \in Nat
    BY LenProperties DEF LogTypes
  <2>3. /\ log_channel' \in Seq(Report \cup {Exit})
        /\ Len(log_channel') = Len(log_channel) + 1
        /\ \A i \in 1..Len(log_channel) : log_channel'[i] = log_channel[i]
        /\ log_channel'[Len(log_channel) + 1] = msg
    BY <2>1, <2>2, AppendProperties
  <2>4. Written' = Written
    BY <2>1 DEF Written
  <2>5. ASSUME NEW n \in 0..Len(log_channel)
        PROVE  Waiting(n)' = Waiting(n)
    <3>1. \A j \in 1..n : log_channel'[j] = log_channel[j]
      BY <2>2, <2>3
    <3> QED BY <3>1 DEF Waiting
  <2>6. Sent \subseteq Sent' /\ msg \in Sent'
    <3>1. ASSUME NEW x \in Waiting(Len(log_channel)) PROVE x \in Sent'
      <4>1. PICK j \in 1..Len(log_channel) : x = log_channel[j]
        BY DEF Waiting
      <4>2. j \in 1..Len(log_channel') /\ x = log_channel'[j]
        BY <2>2, <2>3, <4>1
      <4> QED BY <4>2 DEF Sent, Waiting
    <3>2. msg \in Sent'
      <4>1. Len(log_channel) + 1 \in 1..Len(log_channel')
        BY <2>2, <2>3
      <4> QED BY <2>3, <4>1 DEF Sent, Waiting
    <3>3. Written \subseteq Sent'
      BY <2>4 DEF Sent
    <3> QED BY <3>1, <3>2, <3>3 DEF Sent
  <2>7. ASSUME NEW i \in 1..Len(log_channel'), log_channel'[i] # Exit
        PROVE  FollowsFrom(log_channel'[i], Written' \cup Waiting(i - 1)')
    <3>1. i \in 1..Len(log_channel) \/ i = Len(log_channel) + 1
      BY <2>2, <2>3
    <3>2. i - 1 \in 0..Len(log_channel)
      BY <2>2, <2>3
    <3>3. Written' \cup Waiting(i - 1)' = Written \cup Waiting(i - 1)
      BY <2>4, <2>5, <3>2
    <3>4. CASE i \in 1..Len(log_channel)
      BY <1>2, <2>3, <2>7, <3>3, <3>4, Zenon DEF ChannelInv
    <3>5. CASE i = Len(log_channel) + 1
      <4>1. i - 1 = Len(log_channel) /\ log_channel'[i] = msg
        BY <2>2, <2>3, <3>5
      <4> QED BY <1>2, <2>7, <3>3, <4>1, Zenon DEF Sent
    <3> QED BY <3>1, <3>4, <3>5
  <2>8. ChannelInv'
    BY <2>7, Zenon DEF ChannelInv
  <2>9. ASSUME NEW i \in 1..Len(log_channel'), log_channel'[i] = Exit
        PROVE  msg = Exit \/ \E j \in 1..Len(log_channel) : log_channel[j] = Exit
    <3>1. i \in 1..Len(log_channel) \/ i = Len(log_channel) + 1
      BY <2>2, <2>3
    <3> QED BY <2>3, <2>9, <3>1
  <2> QED BY <2>3, <2>6, <2>8, <2>9
<1> QED BY <1>1, <1>2

(* A send by banking thread th.                                            *)
LEMMA ThreadSends ==
    ASSUME LogInv, NEW th \in Threads, NEW kind \in {"Log", "Opportunities", "ExecutedTransaction"},
           NEW next \in {"loop", "opportunities", "mev", "panicked"},
           Send(Msg(kind, th)), pc' = [pc EXCEPT ![th] = next],
           UNCHANGED <<batches, file, log_thread, join_pc>>,
           log_thread = "running" => FollowsFrom(Msg(kind, th), Sent),
           log_thread = "running" /\ next \in {"opportunities", "mev"} =>
              Msg("Log", th) \in Sent \/ kind = "Log",
           log_thread = "running" /\ next = "mev" => kind = "Opportunities",
           next = "panicked" => log_thread # "running"
    PROVE  LogInv'
<1>1. LogTypes /\ ChannelInv /\ PcInv /\ FileInv /\ ExitInv /\ PanicHasCause
  BY DEF LogInv
<1>2. Msg(kind, th) \in Report /\ Msg(kind, th) # Exit
  BY <1>1, MsgIsReport
<1>3. /\ log_channel' \in Seq(Report \cup {Exit}) /\ ChannelInv' /\ Sent \subseteq Sent'
      /\ log_thread = "running" => Msg(kind, th) \in Sent'
      /\ \A i \in 1..Len(log_channel') : log_channel'[i] = Exit =>
            \E j \in 1..Len(log_channel) : log_channel[j] = Exit
  BY <1>1, <1>2, SendKeepsOrder
<1>4. LogTypes'
  BY <1>1, <1>3 DEF LogTypes
<1>5. PcInv'
  <2> SUFFICES ASSUME log_thread = "running", NEW u \in Threads
               PROVE  /\ pc'[u] \in {"opportunities", "mev", "executed"} => Msg("Log", u) \in Sent'
                      /\ pc'[u] \in {"mev", "executed"} => Msg("Opportunities", u) \in Sent'
    BY DEF PcInv, Msg
  <2>1. CASE u = th
    <3>1. pc'[u] = next
      BY <1>1, <2>1 DEF LogTypes
    <3>2. next \in {"opportunities", "mev"} => Msg("Log", th) \in Sent'
      BY <1>3
    <3>3. next = "mev" => Msg("Opportunities", th) \in Sent'
      BY <1>3
    <3> QED BY <2>1, <3>1, <3>2, <3>3
  <2>2. CASE u # th
    <3>1. pc'[u] = pc[u]
      BY <1>1, <2>2 DEF LogTypes
    <3> QED BY <1>1, <1>3, <3>1 DEF PcInv
  <2> QED BY <2>1, <2>2
<1>6. FileInv'
  BY <1>1, Zenon DEF FileInv
<1>7. ExitInv'
  BY <1>1, <1>3 DEF ExitInv, ExitSent
<1>8. PanicHasCause'
  <2>1. CASE next = "panicked"
    BY <1>1, <2>1 DEF ExitInv, ExitSent, PanicHasCause, LogTypes
  <2>2. CASE next # "panicked"
    <3>1. \A u \in Threads : pc'[u] = "panicked" => pc[u] = "panicked"
      BY <1>1, <2>2 DEF LogTypes
    <3> QED BY <1>1, <3>1 DEF PanicHasCause
  <2> QED BY <2>1, <2>2
<1> QED BY <1>3, <1>4, <1>5, <1>6, <1>7, <1>8 DEF LogInv

----------------------------------------------------------------------------
(* The actions.                                                            *)
LEMMA InitLog == Init => LogInv
<1> SUFFICES ASSUME Init PROVE LogInv
  OBVIOUS
<1>1. /\ log_channel = <<>> /\ file = <<>> /\ Len(<<>>) = 0
      /\ <<>> \in Seq(Report) /\ <<>> \in Seq(Report \cup {Exit})
  BY EmptySeq DEF Init
<1>2. LogTypes
  BY <1>1 DEF Init, LogTypes
<1>3. ChannelInv /\ FileInv /\ ExitInv
  BY <1>1 DEF Init, ChannelInv, FileInv, ExitInv
<1>4. PcInv /\ PanicHasCause
  BY DEF Init, PcInv, PanicHasCause
<1> QED BY <1>2, <1>3, <1>4 DEF LogInv

LEMMA ThreadKeepsLog ==
    ASSUME LogInv, NEW th \in Threads, ThreadStep(th)
    PROVE  LogInv'
<1>1. LogTypes /\ ChannelInv /\ PcInv /\ FileInv /\ ExitInv /\ PanicHasCause
  BY DEF LogInv
<1>2. \A u \in Threads : \A k : Msg(k, u) = [kind |-> k, thread |-> u, batch |-> batches[u]]
  BY DEF Msg
<1>3. CASE begin_batch(th)
  <2>1. LogTypes' /\ ChannelInv' /\ FileInv' /\ ExitInv' /\ Sent' = Sent
    <3>1. LogTypes'
      BY <1>1, <1>3, MevLogAssumption DEF begin_batch, LogTypes
    <3>2. UNCHANGED <<log_channel, file, log_thread, join_pc>>
      BY <1>3 DEF begin_batch
    <3> QED BY <1>1, <3>1, <3>2, Zenon DEF ChannelInv, FileInv, ExitInv, ExitSent, Sent, Written, Waiting
  <2>2. \A u \in Threads : u # th => pc'[u] = pc[u] /\ batches'[u] = batches[u]
    BY <1>1, <1>3 DEF begin_batch, LogTypes
  <2>3. pc'[th] = "log"
    BY <1>1, <1>3 DEF begin_batch, LogTypes
  <2>4. PcInv'
    <3> SUFFICES ASSUME log_thread' = "running", NEW u \in Threads
                 PROVE  /\ pc'[u] \in {"opportunities", "mev", "executed"} => Msg("Log", u)' \in Sent'
                        /\ pc'[u] \in {"mev", "executed"} => Msg("Opportunities", u)' \in Sent'
      BY DEF PcInv
    <3>1. log_thread = "running"
      BY <1>3 DEF begin_batch
    <3>2. CASE u = th
      BY <2>3, <3>2
    <3>3. CASE u # th
      <4>1. Msg("Log", u)' = Msg("Log", u) /\ Msg("Opportunities", u)' = Msg("Opportunities", u)
        BY <2>2, <3>3 DEF Msg
      <4> QED BY <1>1, <2>1, <2>2, <3>1, <3>3, <4>1 DEF PcInv
    <3> QED BY <3>2, <3>3
  <2>5. PanicHasCause'
    BY <1>1, <1>3, <2>2, <2>3 DEF begin_batch, PanicHasCause
  <2> QED BY <2>1, <2>4, <2>5 DEF LogInv
<1>4. CASE send_log(th)
  <2>1. PICK next \in {"loop", "opportunities"} : pc' = [pc EXCEPT ![th] = next]
    BY <1>4, Zenon DEF send_log
  <2>2. FollowsFrom(Msg("Log", th), Sent)
    BY <1>2 DEF FollowsFrom
  <2>3. Send(Msg("Log", th)) /\ UNCHANGED <<batches, file, log_thread, join_pc>>
    BY <1>4 DEF send_log
  <2> QED BY <2>1, <2>2, <2>3, ThreadSends, Zenon
<1>5. CASE send_opportunities(th)
  <2>1. PICK next \in {"loop", "mev"} : pc' = [pc EXCEPT ![th] = next]
    BY <1>5, Zenon DEF send_opportunities
  <2>2. log_thread = "running" => Msg("Log", th) \in Sent
    BY <1>1, <1>5 DEF PcInv, send_opportunities
  <2>3. [Msg("Opportunities", th) EXCEPT !.kind = "Log"] = Msg("Log", th)
    BY <1>2
  <2>4. log_thread = "running" => FollowsFrom(Msg("Opportunities", th), Sent)
    BY <1>2, <2>2, <2>3 DEF FollowsFrom
  <2>5. Send(Msg("Opportunities", th)) /\ UNCHANGED <<batches, file, log_thread, join_pc>>
    BY <1>5 DEF send_opportunities
  <2> QED BY <2>1, <2>2, <2>4, <2>5, ThreadSends, Zenon
<1>6. CASE execute_mev(th)
  <2>1. /\ UNCHANGED <<log_channel, file, log_thread, join_pc, batches>>
        /\ pc' = [pc EXCEPT ![th] = "executed"] /\ pc[th] = "mev"
    BY <1>6 DEF execute_mev
  <2>2. LogTypes' /\ ChannelInv' /\ FileInv' /\ ExitInv' /\ Sent' = Sent
    BY <1>1, <2>1, Zenon DEF LogTypes, ChannelInv, FileInv, ExitInv, ExitSent, Sent, Written, Waiting
  <2>3. \A u \in Threads : pc'[u] = IF u = th THEN "executed" ELSE pc[u]
    BY <1>1, <2>1 DEF LogTypes
  <2>4. PcInv'
    BY <1>1, <2>1, <2>2, <2>3 DEF PcInv, Msg
  <2>5. PanicHasCause'
    BY <1>1, <2>1, <2>3 DEF PanicHasCause
  <2> QED BY <2>2, <2>4, <2>5 DEF LogInv
<1>7. CASE send_executed(th)
  <2>1. PICK next \in {"loop", "panicked"} :
          /\ pc' = [pc EXCEPT ![th] = next]
          /\ next = "panicked" => log_thread # "running"
    BY <1>7, Zenon DEF send_executed, Connected
  <2>2. log_thread = "running" => Msg("Log", th) \in Sent /\ Msg("Opportunities", th) \in Sent
    BY <1>1, <1>7 DEF PcInv, send_executed
  <2>3. /\ [Msg("ExecutedTransaction", th) EXCEPT !.kind = "Log"] = Msg("Log", th)
        /\ [Msg("ExecutedTransaction", th) EXCEPT !.kind = "Opportunities"] = Msg("Opportunities", th)
    BY <1>2
  <2>4. log_thread = "running" => FollowsFrom(Msg("ExecutedTransaction", th), Sent)
    BY <1>2, <2>2, <2>3 DEF FollowsFrom
  <2>5. Send(Msg("ExecutedTransaction", th)) /\ UNCHANGED <<batches, file, log_thread, join_pc>>
    BY <1>7 DEF send_executed
  <2> QED BY <2>1, <2>4, <2>5, ThreadSends, Zenon
<1>8. CASE end_loop(th)
  <2>1. /\ UNCHANGED <<log_channel, file, log_thread, join_pc, batches>>
        /\ pc' = [pc EXCEPT ![th] = "ended"]
    BY <1>8 DEF end_loop
  <2>2. LogTypes' /\ ChannelInv' /\ FileInv' /\ ExitInv' /\ Sent' = Sent
    BY <1>1, <2>1, ZenonT(60) DEF LogTypes, ChannelInv, FileInv, ExitInv, ExitSent, Sent, Written, Waiting
  <2>3. \A u \in Threads : pc'[u] = IF u = th THEN "ended" ELSE pc[u]
    BY <1>1, <2>1 DEF LogTypes
  <2>4. PcInv'
    BY <1>1, <2>1, <2>2, <2>3 DEF PcInv, Msg
  <2>5. PanicHasCause'
    BY <1>1, <2>1, <2>3 DEF PanicHasCause
  <2> QED BY <2>2, <2>4, <2>5 DEF LogInv
<1> QED BY <1>3, <1>4, <1>5, <1>6, <1>7, <1>8 DEF ThreadStep

(* The log thread takes the head of the channel.                           *)
LEMMA RecvKeepsLog ==
    ASSUME LogInv, recv \/ write_fails
    PROVE  LogInv'
<1>1. LogTypes /\ ChannelInv /\ PcInv /\ FileInv /\ ExitInv /\ PanicHasCause
  BY DEF LogInv
<1>2. /\ log_channel # <<>> /\ log_channel' = Tail(log_channel) /\ log_thread = "running"
      /\ UNCHANGED <<pc, batches, join_pc>>
  BY DEF recv, write_fails
<1>3. /\ log_channel' \in Seq(Report \cup {Exit}) /\ Len(log_channel') = Len(log_channel) - 1
      /\ \A i \in 1..Len(log_channel') : log_channel'[i] = log_channel[i + 1]
      /\ Len(log_channel) \in Nat \ {0} /\ 1 \in 1..Len(log_channel)
  BY <1>1, <1>2, HeadTailProperties, EmptySeq DEF LogTypes
<1>4. PICK h \in Report \cup {Exit} : h = Head(log_channel) /\ h = log_channel[1]
  <2>1. Head(log_channel) = log_channel[1]
    BY <1>1, <1>2 DEF LogTypes
  <2> QED BY <1>1, <1>2, <2>1, HeadTailProperties DEF LogTypes
<1>5. \A i \in 1..Len(log_channel') : i + 1 \in 1..Len(log_channel)
  BY <1>3
<1>6. (\E i \in 1..Len(log_channel') : log_channel'[i] = Exit) => ExitSent'
  BY <1>1, <1>2, <1>3, <1>5 DEF ExitInv, ExitSent
<1>7. CASE file' = file /\ log_thread' \in {"ended", "panicked"} /\ (log_thread' = "ended" => h = Exit)
  <2>1. LogTypes' /\ FileInv'
    <3>1. LogTypes'
      BY <1>1, <1>2, <1>3, <1>7 DEF LogTypes
    <3>2. FileInv'
      BY <1>1, <1>7, Zenon DEF FileInv
    <3> QED  BY <3>1, <3>2
  <2>2. ChannelInv' /\ PcInv'
    BY <1>7 DEF ChannelInv, PcInv
  <2>3. ExitInv'
    BY <1>1, <1>2, <1>3, <1>4, <1>6, <1>7 DEF ExitInv, ExitSent
  <2>4. PanicHasCause'
    BY <1>1, <1>2, <1>7 DEF PanicHasCause
  <2> QED BY <2>1, <2>2, <2>3, <2>4 DEF LogInv
<1>8. CASE h # Exit /\ file' = Append(file, h) /\ log_thread' = log_thread
  <2>1. /\ file' \in Seq(Report) /\ Len(file') = Len(file) + 1 /\ Len(file) \in Nat
        /\ \A i \in 1..Len(file) : file'[i] = file[i]
        /\ file'[Len(file) + 1] = h
    BY <1>1, <1>4, <1>8, AppendProperties, LenProperties DEF LogTypes
  <2>2. Written \subseteq Written' /\ h \in Written'
    <3>1. Len(file) + 1 \in 1..Len(file') /\ \A j \in 1..Len(file) : j \in 1..Len(file')
      BY <2>1
    <3> QED BY <2>1, <3>1 DEF Written
  <2>3. ASSUME NEW n \in 1..Len(log_channel)
        PROVE  Waiting(n) \subseteq Written' \cup Waiting(n - 1)'
    <3> SUFFICES ASSUME NEW j \in 1..n PROVE log_channel[j] \in Written' \cup Waiting(n - 1)'
      BY DEF Waiting
    <3>1. CASE j = 1
      BY <1>4, <2>2, <3>1
    <3>2. CASE j # 1
      <4>1. j - 1 \in 1..(n - 1) /\ j - 1 \in 1..Len(log_channel') /\ (j - 1) + 1 = j
        BY <1>3, <3>2
      <4>2. log_channel'[j - 1] = log_channel[j]
        BY <1>3, <4>1
      <4> QED BY <4>1, <4>2 DEF Waiting
    <3> QED BY <3>1, <3>2
  <2>4. LogTypes'
    BY <1>1, <1>2, <1>3, <1>8, <2>1 DEF LogTypes
  <2>5. ChannelInv'
    <3> SUFFICES ASSUME NEW i \in 1..Len(log_channel'), log_channel'[i] # Exit
                 PROVE  FollowsFrom(log_channel'[i], Written' \cup Waiting(i - 1)')
      BY Zenon DEF ChannelInv
    <3>1. /\ i \in 1..Len(log_channel) /\ i + 1 \in 1..Len(log_channel) /\ (i + 1) - 1 = i
          /\ log_channel'[i] = log_channel[i + 1]
      BY <1>3
    <3>2. FollowsFrom(log_channel[i + 1], Written \cup Waiting(i))
      BY <1>1, <1>2, <3>1, Zenon DEF ChannelInv
    <3>3. Written \cup Waiting(i) \subseteq Written' \cup Waiting(i - 1)'
      BY <2>2, <2>3, <3>1
    <3> QED BY <3>1, <3>2, <3>3, FollowsFromMore
  <2>6. PcInv'
    <3>1. Sent \subseteq Sent'
      <4>1. ASSUME NEW n, n = Len(log_channel)
            PROVE  Waiting(n) \subseteq Sent'
        <5>1. n \in 1..Len(log_channel) /\ n - 1 = Len(log_channel')
          BY <1>3, <4>1
        <5>2. Waiting(n) \subseteq Written' \cup Waiting(n - 1)'
          BY <2>3, <5>1
        <5> QED BY <5>1, <5>2 DEF Sent
      <4>2. Waiting(Len(log_channel)) \subseteq Sent'
        BY <4>1
      <4> QED BY <2>2, <4>2 DEF Sent
    <3> QED BY <1>1, <1>2, <3>1 DEF PcInv, Msg
  <2>7. FileInv'
    <3> SUFFICES ASSUME NEW i \in 1..Len(file')
                 PROVE  FollowsFrom(file'[i], {file'[j] : j \in 1..(i - 1)})
      BY Zenon DEF FileInv
    <3>0. i \in 1..Len(file) \/ i = Len(file) + 1
      BY <2>1
    <3>1. {file'[j] : j \in 1..(i - 1)} = {file[j] : j \in 1..(i - 1)}
      <4>1. \A j \in 1..(i - 1) : file'[j] = file[j]
        BY <2>1
      <4> QED BY <4>1
    <3>2. CASE i \in 1..Len(file)
      BY <1>1, <2>1, <3>1, <3>2, Zenon DEF FileInv
    <3>3. CASE i = Len(file) + 1
      <4>1. i - 1 = Len(file) /\ file'[i] = h
        BY <2>1, <3>3
      <4>2. FollowsFrom(h, Written \cup Waiting(0))
        BY <1>1, <1>2, <1>3, <1>4, <1>8 DEF ChannelInv
      <4>3. Waiting(0) = {}
        BY DEF Waiting
      <4>4. Written \subseteq {file'[j] : j \in 1..(i - 1)}
        BY <2>1, <4>1 DEF Written
      <4>5. FollowsFrom(h, Written)
        BY <4>2, <4>3, Zenon
      <4>6. FollowsFrom(h, {file'[j] : j \in 1..(i - 1)})
        BY <4>4, <4>5, FollowsFromMore
      <4> QED BY <4>1, <4>6
    <3> QED BY <3>0, <3>2, <3>3
  <2>8. ExitInv'
    BY <1>2, <1>6, <1>8 DEF ExitInv
  <2>9. PanicHasCause'
    BY <1>1, <1>2, <1>8 DEF PanicHasCause
  <2> QED BY <2>4, <2>5, <2>6, <2>7, <2>8, <2>9 DEF LogInv
<1> QED BY <1>4, <1>7, <1>8 DEF recv, write_fails

LEMMA ShutdownKeepsLog ==
    ASSUME LogInv, set_exit \/ poh_service_ends \/ JoinStep
    PROVE  LogInv'
<1>1. LogTypes /\ ChannelInv /\ PcInv /\ FileInv /\ ExitInv /\ PanicHasCause
  BY DEF LogInv
<1>2. CASE UNCHANGED log_channel
  <2>1. UNCHANGED <<pc, batches, log_channel, log_thread, file>>
    BY <1>2 DEF set_exit, poh_service_ends, JoinStep, join_poh_service, send_exit, join_tpu, join_mev_log
  <2>2. LogTypes' /\ FileInv'
    BY <1>1, <2>1, Zenon DEF LogTypes, FileInv
  <2>3. ChannelInv' /\ PcInv'
    <3>1. ChannelInv' /\ Sent' = Sent
      BY <1>1, <2>1, Zenon DEF ChannelInv, Sent, Written, Waiting
    <3> QED BY <1>1, <2>1, <3>1 DEF PcInv, Msg
  <2>4. ExitSent => ExitSent' \/ log_thread = "panicked"
    BY DEF ExitSent, set_exit, poh_service_ends, JoinStep, join_poh_service, send_exit, join_tpu,
           join_mev_log
  <2>5. ExitInv'
    BY <1>1, <2>1, <2>4 DEF ExitInv
  <2>6. PanicHasCause'
    BY <1>1, <2>1, <2>4 DEF PanicHasCause, ExitSent
  <2> QED BY <2>2, <2>3, <2>5, <2>6 DEF LogInv
<1>3. CASE send_exit
  <2>1. Send(Exit) /\ UNCHANGED <<pc, batches, log_thread, file>>
    BY <1>3 DEF send_exit
  <2>2. /\ log_channel' \in Seq(Report \cup {Exit}) /\ ChannelInv' /\ Sent \subseteq Sent'
    BY <1>1, <2>1, SendKeepsOrder
  <2>3. CASE log_thread = "running"
    <3>1. ExitSent'
      BY <1>3, <2>3 DEF send_exit, Connected, ExitSent
    <3>2. LogTypes' /\ PcInv' /\ FileInv'
      BY <1>1, <2>1, <2>2, Zenon DEF LogTypes, PcInv, FileInv, Msg
    <3>3. ExitInv' /\ PanicHasCause'
      BY <3>1 DEF ExitInv, PanicHasCause, ExitSent
    <3> QED BY <2>2, <3>2, <3>3 DEF LogInv
  <2>4. CASE log_thread # "running"
    BY <1>2, <2>1, <2>4 DEF Send, Connected
  <2> QED BY <2>3, <2>4
<1> QED BY <1>2, <1>3 DEF set_exit, poh_service_ends, JoinStep, join_poh_service, join_tpu, join_mev_log

LEMMA StepKeepsLog == LogInv /\ [Next]_vars => LogInv'
<1> SUFFICES ASSUME LogInv, [Next]_vars PROVE LogInv'
  OBVIOUS
<1>1. CASE UNCHANGED vars
  <2>1. UNCHANGED <<pc, batches, log_channel, log_thread, file, join_pc>>
    BY <1>1 DEF vars
  <2>2. LogTypes' /\ FileInv' /\ ExitInv' /\ PanicHasCause'
    BY <2>1, Zenon DEF LogInv, LogTypes, FileInv, ExitInv, ExitSent, PanicHasCause
  <2>3. ChannelInv' /\ PcInv'
    <3>1. ChannelInv' /\ Sent' = Sent
      BY <2>1, Zenon DEF LogInv, ChannelInv, Sent, Written, Waiting
    <3> QED BY <2>1, <3>1 DEF LogInv, PcInv, Msg
  <2> QED BY <2>2, <2>3 DEF LogInv
<1>2. CASE Next
  BY <1>2, ThreadKeepsLog, RecvKeepsLog, ShutdownKeepsLog DEF Next
<1> QED BY <1>1, <1>2

----------------------------------------------------------------------------
(* The file is in causal order: log_mev_opportunities_get_max_profit_tx    *)
(* and process_transactions send in that order, the channel keeps it, and  *)
(* a message that is dropped, because the thread ended or failed to write, *)
(* is followed by nothing in the file.                                     *)
THEOREM LogCausal == Spec => []LogIsCausal
<1>1. LogInv => LogIsCausal
  <2> SUFFICES ASSUME LogInv PROVE LogIsCausal
    OBVIOUS
  <2>1. DOMAIN file = 1..Len(file) /\ FileInv
    BY LenProperties DEF LogInv, LogTypes
  <2> QED BY <2>1 DEF FileInv, FollowsFrom, LogIsCausal
<1> QED BY InitLog, StepKeepsLog, <1>1, PTL DEF Spec

(* The `expect' on the send of the executed transaction fails only after   *)
(* the log thread failed to write or Validator::join has sent Exit.        *)
THEOREM PanicCaused == Spec => []PanicHasCause
<1>1. LogInv => PanicHasCause
  BY DEF LogInv
<1> QED BY InitLog, StepKeepsLog, <1>1, PTL DEF Spec
============================================================================
