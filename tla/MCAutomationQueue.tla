------------------------- MODULE MCAutomationQueue -------------------------
(* Values for the constants of AutomationQueue that a .cfg cannot write.     *)
EXTENDS AutomationQueue

CONSTANTS w1, w2

\* Three channels: one that is sent at any time, one whose adapter lacks its
\* configuration, one that may be deferred.
MCPolicy == <<"n8n", "email", "sms">>
MCWholePolicy == {MCPolicy}

\* Two sessions of one worker process.
MCSameWorker == [s \in Sessions |-> w1]
=============================================================================
