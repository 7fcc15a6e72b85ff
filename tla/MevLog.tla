------------------------------ MODULE MevLog ------------------------------
(***************************************************************************)
(* The MEV log (MevLog::new in src/runtime/src/mev.rs): the banking        *)
(* threads send messages over an unbounded channel to one thread that      *)
(* writes them to a file, until Validator::join (src/core/src/validator.rs)*)
(* sends Exit.                                                             *)
(***************************************************************************)
EXTENDS Naturals, Sequences

CONSTANTS
    Threads,        \* the banking threads
    MaxBatches,     \* bound on the monitored batches of a thread
    WritesMayFail   \* the file system may refuse a write

ASSUME MevLogAssumption == MaxBatches \in Nat /\ WritesMayFail \in BOOLEAN

VARIABLES
    exit,           \* the exit flag of the validator
    poh_service,    \* "running" or "ended"
    pc,             \* per banking thread: where it is in process_loop
    batches,        \* per banking thread: the batches it began
    log_channel,    \* the messages sent and not yet received
    log_thread,     \* "running", "ended" or "panicked"
    file,           \* the messages written
    join_pc         \* the next call of Validator::join

vars == <<exit, poh_service, pc, batches, log_channel, log_thread, file, join_pc>>

Msg(kind, th) == [kind |-> kind, thread |-> th, batch |-> batches[th]]
Exit == [kind |-> "Exit"]

Init ==
    /\ exit = FALSE
    /\ poh_service = "running"
    /\ pc = [th \in Threads |-> "loop"]
    /\ batches = [th \in Threads |-> 0]
    /\ log_channel = <<>>
    /\ log_thread = "running"
    /\ file = <<>>
    /\ join_pc = "poh_service"

\* The receiver lives in the log thread: sending fails once the thread is gone.
Connected == log_thread = "running"

Send(msg) == log_channel' = IF Connected THEN Append(log_channel, msg) ELSE log_channel

----------------------------------------------------------------------------
(* A banking thread.                                                       *)

\* A monitored transaction of a new batch was executed.
begin_batch(th) ==
    /\ pc[th] = "loop"
    /\ batches[th] < MaxBatches
    /\ pc' = [pc EXCEPT ![th] = "log"]
    /\ batches' = [batches EXCEPT ![th] = @ + 1]
    /\ UNCHANGED <<exit, poh_service, log_channel, log_thread, file, join_pc>>

\* log_mev_opportunities_get_max_profit_tx sends the pool states; it returns
\* early when no path yields an output.  A failed send is only reported.
send_log(th) ==
    /\ pc[th] = "log"
    /\ Send(Msg("Log", th))
    /\ \E next \in {"loop", "opportunities"} : pc' = [pc EXCEPT ![th] = next]
    /\ UNCHANGED <<exit, poh_service, batches, log_thread, file, join_pc>>

\* Mutant: the outputs are not logged.
SkipOpportunities(th) ==
    /\ pc[th] = "opportunities"
    /\ \E next \in {"loop", "mev"} : pc' = [pc EXCEPT ![th] = next]
    /\ UNCHANGED <<exit, poh_service, batches, log_channel, log_thread, file, join_pc>>

\* It sends the outputs; the best one may carry no transaction.
send_opportunities(th) ==
    /\ pc[th] = "opportunities"
    /\ Send(Msg("Opportunities", th))
    /\ \E next \in {"loop", "mev"} : pc' = [pc EXCEPT ![th] = next]
    /\ UNCHANGED <<exit, poh_service, batches, log_thread, file, join_pc>>

\* process_transactions runs the MEV batch, whatever became of the first one.
execute_mev(th) ==
    /\ pc[th] = "mev"
    /\ pc' = [pc EXCEPT ![th] = "executed"]
    /\ UNCHANGED <<exit, poh_service, batches, log_channel, log_thread, file, join_pc>>

\* It reports the execution, and expects the send to succeed.
send_executed(th) ==
    /\ pc[th] = "executed"
    /\ Send(Msg("ExecutedTransaction", th))
    /\ pc' = [pc EXCEPT ![th] = IF Connected THEN "loop" ELSE "panicked"]
    /\ UNCHANGED <<exit, poh_service, batches, log_thread, file, join_pc>>

\* process_loop ends when the stages before it closed the packet channel.
end_loop(th) ==
    /\ pc[th] = "loop"
    /\ exit
    /\ pc' = [pc EXCEPT ![th] = "ended"]
    /\ UNCHANGED <<exit, poh_service, batches, log_channel, log_thread, file, join_pc>>

ThreadStep(th) ==
    \/ begin_batch(th) \/ send_log(th) \/ send_opportunities(th)
    \/ execute_mev(th) \/ send_executed(th) \/ end_loop(th)

----------------------------------------------------------------------------
(* The log thread.                                                         *)

\* Mutant: the thread stops when it finds no message.
RecvOrStop ==
    /\ log_thread = "running"
    /\ log_thread' = IF log_channel = <<>> THEN "ended" ELSE log_thread
    /\ UNCHANGED <<exit, poh_service, pc, batches, log_channel, file, join_pc>>

\* Mutant: Exit does not stop the thread.
RecvIgnoresExit ==
    /\ log_thread = "running"
    /\ log_channel # <<>>
    /\ log_channel' = Tail(log_channel)
    /\ file' = IF Head(log_channel) = Exit THEN file ELSE Append(file, Head(log_channel))
    /\ UNCHANGED <<exit, poh_service, pc, batches, log_thread, join_pc>>

\* One turn of the loop: the message is written, and Exit ends the thread.
recv ==
    /\ log_thread = "running"
    /\ log_channel # <<>>
    /\ log_channel' = Tail(log_channel)
    /\ IF Head(log_channel) = Exit
       THEN log_thread' = "ended" /\ UNCHANGED file
       ELSE file' = Append(file, Head(log_channel)) /\ UNCHANGED log_thread
    /\ UNCHANGED <<exit, poh_service, pc, batches, join_pc>>

\* The write fails and the thread panics on its expect.
write_fails ==
    /\ WritesMayFail
    /\ log_thread = "running"
    /\ log_channel # <<>>
    /\ Head(log_channel) # Exit
    /\ log_thread' = "panicked"
    /\ log_channel' = Tail(log_channel)
    /\ UNCHANGED <<exit, poh_service, pc, batches, file, join_pc>>

----------------------------------------------------------------------------
(* The shutdown.                                                           *)

set_exit ==
    /\ ~exit
    /\ exit' = TRUE
    /\ UNCHANGED <<poh_service, pc, batches, log_channel, log_thread, file, join_pc>>

\* tick_producer looks at the flag after a tick.
poh_service_ends ==
    /\ exit
    /\ poh_service = "running"
    /\ poh_service' = "ended"
    /\ UNCHANGED <<exit, pc, batches, log_channel, log_thread, file, join_pc>>

join_poh_service ==
    /\ join_pc = "poh_service"
    /\ poh_service = "ended"
    /\ join_pc' = "send_exit"
    /\ UNCHANGED <<exit, poh_service, pc, batches, log_channel, log_thread, file>>

\* Exit is sent, and expected to be, before the banking threads are joined.
send_exit ==
    /\ join_pc = "send_exit"
    /\ Send(Exit)
    /\ join_pc' = IF Connected THEN "tpu" ELSE "panicked"
    /\ UNCHANGED <<exit, poh_service, pc, batches, log_thread, file>>

\* Tpu::join waits for the banking threads, up to a timeout, and ignores
\* whether they panicked.
join_tpu ==
    /\ join_pc = "tpu"
    /\ join_pc' = "mev_log"
    /\ UNCHANGED <<exit, poh_service, pc, batches, log_channel, log_thread, file>>

join_mev_log ==
    /\ join_pc = "mev_log"
    /\ log_thread # "running"
    /\ join_pc' = IF log_thread = "panicked" THEN "panicked" ELSE "returned"
    /\ UNCHANGED <<exit, poh_service, pc, batches, log_channel, log_thread, file>>

JoinStep == join_poh_service \/ send_exit \/ join_tpu \/ join_mev_log

Next ==
    \/ \E th \in Threads : ThreadStep(th)
    \/ recv \/ write_fails
    \/ set_exit \/ poh_service_ends \/ JoinStep

Spec == Init /\ [][Next]_vars

\* The operating system schedules every thread; the validator need not exit.
FairSpec ==
    /\ Spec
    /\ \A th \in Threads : WF_vars(ThreadStep(th))
    /\ WF_vars(recv \/ write_fails)
    /\ WF_vars(poh_service_ends)
    /\ WF_vars(JoinStep)

----------------------------------------------------------------------------
\* mev-tests/test_mev.py reads the log of a batch as pool states, then
\* opportunities, then the executed transaction.  Messages of several threads
\* interleave, but no message of a batch is written before the ones it follows
\* from, also when the log thread ended in between.
LogIsCausal ==
    \A i \in DOMAIN file :
        LET before == {file[j] : j \in 1..(i - 1)}
        IN  /\ file[i].kind # "Log" => [file[i] EXCEPT !.kind = "Log"] \in before
            /\ file[i].kind = "ExecutedTransaction" =>
                [file[i] EXCEPT !.kind = "Opportunities"] \in before

\* A banking thread dies of a log message only during the shutdown or after
\* the log thread failed to write.
PanicHasCause ==
    (\E th \in Threads : pc[th] = "panicked") =>
        log_thread = "panicked" \/ join_pc \in {"tpu", "mev_log", "returned"}

\* A banking thread's `.expect("Failed ExecutedTransaction message")`.
ReportIsReceived == \A th \in Threads : pc[th] # "panicked"

\* Validator::join ends once the exit flag is set: the log thread, joined
\* last, always sees Exit or has panicked.
ShutdownEnds == exit ~> join_pc \in {"returned", "panicked"}
============================================================================
