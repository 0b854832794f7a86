------------------------------ MODULE LogTail -------------------------------
(***************************************************************************)
(* Tailing logs: the goroutines of one ltc process between a log consumer  *)
(* and the terminal.  The command (main) starts the outputter, or is it;   *)
(* the outputter starts readChannels, which starts the consumer:           *)
(*                                                                         *)
(*   consumer --logCh, errCh--> readChannels --outCh--> outputter          *)
(*                   main --stopChan (unbuffered)--> readChannels          *)
(*                                                                         *)
(* The consumer (noaa) is not part of the repository.                      *)
(***************************************************************************)
EXTENDS Integers, Sequences, SequencesExt

CONSTANTS
    Cap,            \* capacity of the buffered channels (10 in the code)
    MaxLogs,        \* bound on the logs the consumer sends
    MaxErrs,        \* bound on the errors the consumer sends
    Modes           \* "logs": ltc logs and debug-logs; "wait": create, build-droplet

ASSUME CapAssumption == Cap \in Nat \ {0} /\ MaxLogs \in Nat /\ MaxErrs \in Nat
ASSUME ModeAssumption == Modes \subseteq {"logs", "wait"}

VARIABLES
    mode,       \* which kind of command this process runs
    main,       \* the goroutine of the command
    outputter,  \* the goroutine ranging over outCh
    reader,     \* the goroutine in TailLogs and readChannels
    consumer,   \* the goroutine in consumer.TailingLogs
    held,       \* what a callback is about to send on outCh
    logCh, errCh, logClosed, errClosed,
    outCh,
    printed,    \* what the terminal shows
    sentLogs, sentErrs,
    closeAsked  \* consumer.Close() was called

channels == <<logCh, errCh, logClosed, errClosed, outCh>>
vars == <<mode, main, outputter, reader, consumer, held, channels, printed,
          sentLogs, sentErrs, closeAsked>>

Log(n) == [kind |-> "log", n |-> n]
Err(n) == [kind |-> "err", n |-> n]
NilErr == [kind |-> "nil", n |-> 0]     \* what a closed error channel yields
Line == {Log(n) : n \in 1 .. MaxLogs} \cup {Err(n) : n \in 1 .. MaxErrs}
Nothing == <<>>

\* Nothing runs once the process is gone.
Over == main = "exited" \/ reader = "panicked"
Alive == ~Over

Init ==
    /\ mode \in Modes
    /\ main = "start"
    /\ outputter = "none" /\ reader = "none" /\ consumer = "none"
    /\ held = Nothing
    /\ logCh = <<>> /\ errCh = <<>> /\ outCh = <<>>
    /\ logClosed = FALSE /\ errClosed = FALSE
    /\ printed = <<>>
    /\ sentLogs = 0 /\ sentErrs = 0
    /\ closeAsked = FALSE

-----------------------------------------------------------------------------
\* main: ltc logs becomes the outputter; the others start it and go on.
StartOutputting ==
    /\ Alive /\ main = "start"
    /\ main' = IF mode = "logs" THEN "outputting" ELSE "working"
    /\ outputter' = "spawned"
    /\ UNCHANGED <<mode, reader, consumer, held, channels, printed, sentLogs, sentErrs, closeAsked>>

\* Polling and asking for the status ends; the deferred StopOutputting runs.
WorkDone ==
    /\ Alive /\ main = "working"
    /\ main' = "stopping"
    /\ UNCHANGED <<mode, outputter, reader, consumer, held, channels, printed, sentLogs, sentErrs, closeAsked>>

\* Faulty variant: with a buffered stopChan the reader goes on for a while.
StopTailingBuffered ==
    /\ Alive /\ main = "stopping"
    /\ main' = "closing"
    /\ UNCHANGED <<mode, outputter, reader, consumer, held, channels, printed, sentLogs, sentErrs, closeAsked>>
\* stopChan is unbuffered: sending and receiving on it are one step.
StopTailing ==
    /\ Alive /\ main = "stopping" /\ reader = "select"
    /\ main' = "closing" /\ reader' = "returned"
    /\ UNCHANGED <<mode, outputter, consumer, held, channels, printed, sentLogs, sentErrs, closeAsked>>

CloseConsumer ==
    /\ Alive /\ main = "closing"
    /\ main' = "returning"
    /\ closeAsked' = TRUE
    /\ UNCHANGED <<mode, outputter, reader, consumer, held, channels, printed, sentLogs, sentErrs>>

\* The command returns: main returns, and the other goroutines die with it.
Return ==
    /\ Alive /\ main = "returning"
    /\ main' = "exited"
    /\ UNCHANGED <<mode, outputter, reader, consumer, held, channels, printed, sentLogs, sentErrs, closeAsked>>

\* A signal, or a failure while main works: the exit handler ends the process
\* without StopOutputting.
ExitNow ==
    /\ Alive
    /\ main' = "exited"
    /\ UNCHANGED <<mode, outputter, reader, consumer, held, channels, printed, sentLogs, sentErrs, closeAsked>>

-----------------------------------------------------------------------------
\* OutputTailedLogs: start the reader, then print whatever arrives.
StartReader ==
    /\ Alive /\ outputter = "spawned"
    /\ outputter' = "ranging" /\ reader' = "spawned"
    /\ UNCHANGED <<mode, main, consumer, held, channels, printed, sentLogs, sentErrs, closeAsked>>

PrintLine ==
    /\ Alive /\ outputter = "ranging" /\ outCh # <<>>
    /\ printed' = Append(printed, Head(outCh))
    /\ outCh' = Tail(outCh)
    /\ UNCHANGED <<mode, main, outputter, reader, consumer, held, logCh, errCh, logClosed, errClosed,
                   sentLogs, sentErrs, closeAsked>>

\* TailLogs makes fresh channels and starts the consumer.
StartConsumer ==
    /\ Alive /\ reader = "spawned"
    /\ reader' = "select" /\ consumer' = "running"
    /\ UNCHANGED <<mode, main, outputter, held, channels, printed, sentLogs, sentErrs, closeAsked>>

\* Faulty variant: the reader returns on the first error.
ReceiveErrReturns ==
    /\ Alive /\ reader = "select" /\ errCh # <<>>
    /\ errCh' = Tail(errCh) /\ reader' = "returned"
    /\ UNCHANGED <<mode, main, outputter, consumer, held, logCh, logClosed, errClosed, outCh, printed,
                   sentLogs, sentErrs, closeAsked>>
\* Faulty variant: the end of the errors is taken for the end of the logs.
ReceiveErrGivesUp ==
    /\ Alive /\ reader = "select"
    /\ \/ /\ errCh # <<>>
          /\ held' = <<Head(errCh)>> /\ errCh' = Tail(errCh) /\ reader' = "callback"
       \/ errCh = <<>> /\ errClosed /\ reader' = "returned" /\ UNCHANGED <<held, errCh>>
    /\ UNCHANGED <<mode, main, outputter, consumer, logCh, logClosed, errClosed, outCh, printed,
                   sentLogs, sentErrs, closeAsked>>
\* One case of the select in readChannels each (the third is StopTailing).
\* The receive from errCh does not look whether the channel is closed.
ReceiveErr ==
    /\ Alive /\ reader = "select"
    /\ \/ /\ errCh # <<>>
          /\ held' = <<Head(errCh)>> /\ errCh' = Tail(errCh) /\ reader' = "callback"
       \/ /\ errCh = <<>> /\ errClosed
          /\ held' = <<NilErr>> /\ reader' = "callback" /\ UNCHANGED errCh
    /\ UNCHANGED <<mode, main, outputter, consumer, logCh, logClosed, errClosed, outCh, printed,
                   sentLogs, sentErrs, closeAsked>>

ReceiveLog ==
    /\ Alive /\ reader = "select"
    /\ \/ /\ logCh # <<>>
          /\ held' = <<Head(logCh)>> /\ logCh' = Tail(logCh) /\ reader' = "callback"
       \/ /\ logCh = <<>> /\ logClosed
          /\ reader' = "returned" /\ UNCHANGED <<held, logCh>>
    /\ UNCHANGED <<mode, main, outputter, consumer, errCh, logClosed, errClosed, outCh, printed,
                   sentLogs, sentErrs, closeAsked>>

\* Faulty variant: a line is dropped when the terminal is slow.
CallbackDrops ==
    /\ Alive /\ reader = "callback"
    /\ outCh' = IF Len(outCh) < Cap THEN outCh \o held ELSE outCh
    /\ held' = Nothing /\ reader' = "select"
    /\ UNCHANGED <<mode, main, outputter, consumer, logCh, errCh, logClosed, errClosed, printed,
                   sentLogs, sentErrs, closeAsked>>
\* logCallback and errorCallback send the line, blocking while outCh is full;
\* err.Error() on a nil error takes the whole process down.
Callback ==
    /\ Alive /\ reader = "callback"
    /\ \/ /\ held # <<NilErr>> /\ Len(outCh) < Cap
          /\ outCh' = outCh \o held /\ held' = Nothing /\ reader' = "select"
       \/ held = <<NilErr>> /\ reader' = "panicked" /\ UNCHANGED <<outCh, held>>
    /\ UNCHANGED <<mode, main, outputter, consumer, logCh, errCh, logClosed, errClosed, printed,
                   sentLogs, sentErrs, closeAsked>>

-----------------------------------------------------------------------------
\* The consumer, as the code uses it and its test's fake consumer behaves:
\* it sends logs and errors, and when it ends, because it is closed or by
\* itself (it has lost its connection), it closes errCh, then logCh.
ConsumerSends ==
    /\ Alive /\ consumer = "running"
    /\ \/ /\ sentLogs < MaxLogs /\ Len(logCh) < Cap
          /\ sentLogs' = sentLogs + 1 /\ logCh' = Append(logCh, Log(sentLogs + 1))
          /\ UNCHANGED <<errCh, sentErrs>>
       \/ /\ sentErrs < MaxErrs /\ Len(errCh) < Cap
          /\ sentErrs' = sentErrs + 1 /\ errCh' = Append(errCh, Err(sentErrs + 1))
          /\ UNCHANGED <<logCh, sentLogs>>
    /\ UNCHANGED <<mode, main, outputter, reader, consumer, held, logClosed, errClosed, outCh,
                   printed, closeAsked>>

ConsumerStops ==
    /\ Alive
    /\ \/ /\ consumer = "running"
          /\ consumer' = "ending" /\ errClosed' = TRUE /\ UNCHANGED logClosed
       \/ /\ consumer = "ending"
          /\ consumer' = "ended" /\ logClosed' = TRUE /\ UNCHANGED errClosed
    /\ UNCHANGED <<mode, main, outputter, reader, held, logCh, errCh, outCh, printed,
                   sentLogs, sentErrs, closeAsked>>

MainStep == StartOutputting \/ WorkDone \/ CloseConsumer \/ Return
OutputterStep == StartReader \/ PrintLine
ReaderStep == StartConsumer \/ ReceiveErr \/ ReceiveLog \/ Callback
ConsumerStep == ConsumerSends \/ ConsumerStops

Next == \/ MainStep \/ StopTailing \/ ExitNow
        \/ OutputterStep \/ ReaderStep \/ ConsumerStep

Spec == Init /\ [][Next]_vars
\* Every goroutine is scheduled, and the select does not pass over a pending
\* stop forever (Go picks among ready cases at random).  Signals need not come.
FairSpec ==
    /\ Spec
    /\ WF_vars(MainStep) /\ WF_vars(OutputterStep)
    /\ WF_vars(ReaderStep) /\ SF_vars(StopTailing)

-----------------------------------------------------------------------------
TypeOK ==
    /\ mode \in {"logs", "wait"}
    /\ main \in {"start", "outputting", "working", "stopping", "closing", "returning", "exited"}
    /\ outputter \in {"none", "spawned", "ranging"}
    /\ reader \in {"none", "spawned", "select", "callback", "returned", "panicked"}
    /\ consumer \in {"none", "running", "ending", "ended"}
    /\ held \in {Nothing} \cup {<<l>> : l \in Line \cup {NilErr}}
    /\ logCh \in Seq(Line) /\ Len(logCh) <= Cap
    /\ errCh \in Seq(Line) /\ Len(errCh) <= Cap
    /\ outCh \in Seq(Line) /\ Len(outCh) <= Cap
    /\ printed \in Seq(Line)
    /\ logClosed \in BOOLEAN /\ errClosed \in BOOLEAN /\ closeAsked \in BOOLEAN
    /\ sentLogs \in 0 .. MaxLogs /\ sentErrs \in 0 .. MaxErrs

\* The lines of kind k in s are the first n there are, each once and in order.
InOrder(s, k, n) ==
    /\ {s[i].n : i \in {j \in DOMAIN s : s[j].kind = k}} = 1 .. n
    /\ \A i, j \in DOMAIN s : i < j /\ s[i].kind = k /\ s[j].kind = k => s[i].n < s[j].n

\* Through two channels and a callback no log and no error is lost, doubled
\* or overtaken by one of its kind, however the goroutines are scheduled.
inFlight == printed \o outCh \o held
NothingLostOrReordered ==
    /\ InOrder(inFlight \o logCh, "log", sentLogs)
    /\ InOrder(inFlight \o errCh, "err", sentErrs)

\* "provides the logCallback with logs until StopTailing is called": once
\* StopTailing has stopped the reader, no further line reaches the outputter.
Stopped == main \in {"closing", "returning"}
NothingAfterStop ==
    [][Stopped => Len(printed' \o outCh') = Len(printed \o outCh) /\ UNCHANGED reader]_vars

\* The reader has returned because the consumer closed its logs: nobody will
\* receive from stopChan any more.
StopIsLost == main = "stopping" /\ reader = "returned" /\ logClosed

\* A command that wants to stop gets to, and its process ends; the one thing
\* that keeps it forever is that the consumer has closed the logs before.
StopReturns == main = "stopping" ~> Over \/ StopIsLost

\* "stops tailing logs when requested": always.
EveryStopReturns == main = "stopping" ~> Over

\* When the reader returns without having been stopped, every log the consumer
\* ever sent is with the outputter, in order: an error ends nothing, and the
\* end of the consumer is noticed behind its last log.
LogsAreSeenOut ==
    reader = "returned" /\ main \notin {"closing", "returning", "exited"} =>
        InOrder(printed \o outCh, "log", sentLogs)

\* While nothing ends the process, every log the consumer sent is printed.
EveryLogIsPrinted ==
    \A n \in 1 .. MaxLogs :
        [](sentLogs >= n /\ mode = "logs" =>
              <>(Over \/ Contains(printed, Log(n))))

\* "provides the errorCallback with the pending errors": what the error
\* callback is given is an error.
ErrorCallbackGetsErrors == held # <<NilErr>>

\* ... and so every error is printed, as every log is.
EveryErrorIsPrinted ==
    \A n \in 1 .. MaxErrs :
        [](sentErrs >= n /\ mode = "logs" => <>(Over \/ Contains(printed, Err(n))))
=============================================================================
