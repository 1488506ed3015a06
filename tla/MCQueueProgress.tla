-------------------------- MODULE MCQueueProgress --------------------------
(***************************************************************************)
(* What the queue achieves where its workers can make progress, on two     *)
(* instances that one run follows over the same variables: `following` is  *)
(* "clean", the constants of the .cfg, two workers on two queued events    *)
(* with a channel of every fate and no fault at all; or "live", with       *)
(* crashes, overruns and ambiguous sends, under fairness.                  *)
(***************************************************************************)
EXTENDS AutomationQueue

CONSTANTS w1, w2, m1, m2

VARIABLE following

\* A channel of every fate, in the order of the policies: sent at any time,
\* switched off, deferrable, misconfigured, opted out.
MCFullPolicy == <<"n8n", "push", "sms", "email", "vapi">>
MCWholePolicy == {MCFullPolicy}
MCTwoWorkers == [s \in Sessions |-> IF s = 1 THEN w1 ELSE w2]

Faulty == INSTANCE AutomationQueue WITH
  Events <- {1}, Premade <- {}, Materializers <- {m1, m2}, Tokens <- 11..14,
  WorkerOf <- [s \in Sessions |-> w1],
  Policy <- <<"sms">>, Requests <- {<<"sms">>}, Enabled <- {"sms"}, Skipped <- {},
  Misconfigured <- {}, Quietable <- {},
  Faults <- {"overrun", "crash", "ambiguous", "materialize"}

EitherInit == \/ following = "clean" /\ Init
              \/ following = "live" /\ Faulty!Init

EitherNext == /\ \/ following = "clean" /\ Next
                 \/ following = "live" /\ Faulty!Next
              /\ UNCHANGED following

Live(A) == following = "live" /\ A

\* The fairness of AutomationQueue, where workers may fail.
LiveFairness ==
  /\ \A s \in Sessions : /\ WF_vars(Live(Faulty!Claim(s)))
                         /\ WF_vars(Live(Faulty!Deliver(s) \/ Faulty!Settle(s)))
  /\ \A m \in {m1, m2} : WF_vars(Live(Faulty!Materialize(m)))
  /\ WF_vars(Live(Faulty!Tick))

EitherSpec == EitherInit /\ [][EitherNext]_<<following, vars>> /\ LiveFairness

-----------------------------------------------------------------------------
\* Workers that are faster than their leases, and do not die, send no customer
\* the same notification twice on one channel, through retries, quiet hours and
\* a second worker on the same queue (AutomationQueue).
CleanSendsOnce == following = "clean" => SentAtMostOnce

\* Every queued event is eventually completed or dead-lettered, once workers stop
\* dying and overrunning their leases (AutomationQueue).
LiveSettles == following = "live" => Faulty!EventuallySettled
=============================================================================
