---------------------------- MODULE PlantListing ----------------------------
(***************************************************************************)
(* How a plant comes to be listed: a customer who discovered it asks for   *)
(* it (customer/plants.tsx, maps.py), an authority imports it, or its owner*)
(* applies (plant_onboarding.py); reviewers approve or reject the request  *)
(* and give the plant its owner (plant_discovery.py, control_center.py).   *)
(*                                                                         *)
(* A request is stored under the place of Google's it is for, or under a   *)
(* number of its own (a form).  Every route reads, waits, and writes.      *)
(***************************************************************************)
EXTENDS Integers, FiniteSets

CONSTANTS
  None,
  Places,      \* places of Google's
  Forms,       \* bound: applications without a place
  People,      \* who applies for a plant, or is given one
  Calls,       \* bound: requests to the server in progress
  MaxTouches   \* bound: calls started

Keys == Places \cup Forms

VARIABLES
  \* customer/plants.tsx
  discovering, cards, \* place -> what its card shows, or None
  requesting,         \* requestingPlace
  calls, touches,
  listing,    \* plant_listing_requests, by key
  plants,     \* key -> the plants created for it
  owner,      \* key -> owner_id of its plant
  accounts    \* users: the plant owners there are

screen == <<discovering, cards, requesting>>
stores == <<listing, plants, owner, accounts>>
vars == <<screen, calls, touches, stores>>

Free == [pc |-> "free", kind |-> "ask", key |-> None, who |-> None, seen |-> "NONE"]
NoListing == [status |-> "NONE", applicant |-> None]

Init ==
  /\ discovering = FALSE /\ cards = [k \in Places |-> None] /\ requesting = None
  /\ calls = [c \in Calls |-> Free] /\ touches = 0
  /\ listing = [k \in Keys |-> NoListing]
  /\ plants = [k \in Keys |-> 0] /\ owner = [k \in Keys |-> None] /\ accounts = {}

Start(kind, k, who) ==
  LET free == {c \in Calls : calls[c] = Free} IN
  /\ free # {} /\ touches < MaxTouches /\ touches' = touches + 1
  /\ calls' = [calls EXCEPT ![CHOOSE c \in free : TRUE] =
       [Free EXCEPT !.pc = "sent", !.kind = kind, !.key = k, !.who = who]]

-----------------------------------------------------------------------------
(* The customer's cards. *)

\* discoverOnGoogle; the search field starts it too while one is in progress.
Discover ==
  /\ discovering' = TRUE /\ ~discovering
  /\ UNCHANGED <<cards, requesting, calls, touches, stores>>

Registered(k) == plants[k] > 0

\* The places found, each as it is listed now, or an error.
Discovered ==
  /\ discovering /\ discovering' = FALSE
  /\ \/ cards' = [k \in Places |-> IF Registered(k) THEN "REGISTERED" ELSE listing[k].status]
     \/ UNCHANGED cards
  /\ UNCHANGED <<requesting, calls, touches, stores>>

\* The button of a card works while it shows no request, and not for its own.
Askable(k) == cards[k] \in {"NONE", "REJECTED"} /\ requesting # k

RequestListing(k) ==
  /\ Askable(k) /\ requesting' = k
  /\ Start("ask", k, None)
  /\ UNCHANGED <<discovering, cards, stores>>

\* The answer is put on the card, wherever the list comes from by now.
ListingAnswered(c) ==
  /\ calls[c].kind = "ask" /\ calls[c].pc \in {"ok", "failed"} /\ requesting' = None
  /\ cards' = IF calls[c].pc = "ok" /\ cards[calls[c].key] # None
                THEN [cards EXCEPT ![calls[c].key] = calls[c].seen] ELSE cards
  /\ calls' = [calls EXCEPT ![c] = Free]
  /\ UNCHANGED <<discovering, touches, stores>>

\* The client stops waiting.
StopWaiting ==
  /\ requesting # None /\ requesting' = None
  /\ UNCHANGED <<discovering, cards, calls, touches, stores>>

-----------------------------------------------------------------------------
(* Asking for a listing. *)

others == <<screen, touches>>
At(c, pc, kinds) == calls[c].pc = pc /\ calls[c].kind \in kinds
Goto(c, pc) == calls' = [calls EXCEPT ![c].pc = pc]
Told(c, pc, status) == calls' = [calls EXCEPT ![c].pc = pc, ![c].seen = status]
Status(c) == listing[calls[c].key].status

\* An authority imports a place; an owner applies, with a place or without.
Import(k) == Start("import", k, None) /\ UNCHANGED <<screen, stores>>
Apply(k, who) == Start("apply", k, who) /\ UNCHANGED <<screen, stores>>

\* request_rmc_listing and bulk_import_google_places: what is registered, pending
\* or approved is left; the details of the place are fetched for the rest.
FindListing(c) ==
  /\ At(c, "sent", {"ask", "import"})
  /\ CASE Registered(calls[c].key) -> Told(c, "ok", "REGISTERED")
       [] Status(c) \in {"PENDING", "APPROVED"} -> Told(c, "ok", Status(c))
       [] OTHER -> Told(c, "write", Status(c))
  /\ UNCHANGED <<others, stores>>

\* A request that was found is pending again, whatever became of it; a new one is
\* unique.
WriteListing(c) ==
  /\ At(c, "write", {"ask", "import"})
  /\ IF calls[c].seen # "NONE" \/ Status(c) = "NONE"
       THEN /\ listing' = [listing EXCEPT ![calls[c].key].status = "PENDING"]
            /\ Told(c, "ok", "PENDING")
       ELSE Goto(c, "failed") /\ UNCHANGED listing
  /\ UNCHANGED <<others, plants, owner, accounts>>

\* submit_onboarding: not for somebody with an account, nor for a place that is
\* registered or under review; a pending application is answered with its number.
FindApplication(c) ==
  LET pending == \E k \in Keys : /\ listing[k].status = "PENDING"
                                 /\ listing[k].applicant = calls[c].who IN
  /\ At(c, "sent", {"apply"})
  /\ CASE calls[c].who \in accounts -> Goto(c, "failed")
       [] calls[c].who \notin accounts /\ pending -> Goto(c, "ok")
       [] calls[c].who \notin accounts /\ ~pending ->
            Goto(c, IF Registered(calls[c].key) \/ Status(c) \in {"PENDING", "APPROVED"}
                      THEN "failed" ELSE "write")
  /\ UNCHANGED <<others, stores>>

InsertApplication(c) ==
  /\ At(c, "write", {"apply"})
  /\ IF Status(c) = "NONE"
       THEN /\ listing' = [listing EXCEPT ![calls[c].key] =
                             [status |-> "PENDING", applicant |-> calls[c].who]]
            /\ Goto(c, "ok")
       ELSE Goto(c, "failed") /\ UNCHANGED listing
  /\ UNCHANGED <<others, plants, owner, accounts>>

-----------------------------------------------------------------------------
(* Reviewing. *)

\* The list a reviewer reads may be old: of requests that were pending once.
Review(kind, k, who) ==
  /\ listing[k].status # "NONE" /\ Start(kind, k, who) /\ UNCHANGED <<screen, stores>>

\* A plant without an owner is given one.
Assign(k, who) ==
  /\ Registered(k) /\ Start("assign", k, who) /\ UNCHANGED <<screen, stores>>

\* approve_listing: an owner is named by the reviewer, or by the application.
\* The plant of the place is read with the request.
FindPending(c) ==
  LET k == calls[c].key
      who == IF calls[c].who = None THEN listing[k].applicant ELSE calls[c].who IN
  /\ At(c, "sent", {"approve"})
  /\ CASE Status(c) = "APPROVED" -> Goto(c, "ok")
       [] Status(c) \in {"NONE", "REJECTED"} -> Goto(c, "failed")
       [] Status(c) = "PENDING" /\ k \in Places /\ Registered(k) ->
            IF owner[k] # None /\ who # None THEN Goto(c, "failed")
            ELSE calls' = [calls EXCEPT ![c].pc = "account", ![c].who = who, ![c].seen = "PLANT"]
       [] OTHER -> calls' = [calls EXCEPT ![c].pc = "account", ![c].who = who]
  /\ UNCHANGED <<others, stores>>

\* _provision_plant_owner makes the account or takes the one there is.
Provision(c) ==
  /\ At(c, "account", {"approve", "assign"})
  /\ accounts' = accounts \cup ({calls[c].who} \ {None})
  /\ Goto(c, IF calls[c].kind = "assign" THEN "own" ELSE "plant")
  /\ UNCHANGED <<others, listing, plants, owner>>

\* The plant is made with its owner.
Made(c) ==
  /\ Goto(c, "mark") /\ plants' = [plants EXCEPT ![calls[c].key] = @ + 1]
  /\ owner' = IF Registered(calls[c].key) \/ calls[c].who = None THEN owner
              ELSE [owner EXCEPT ![calls[c].key] = calls[c].who]

\* Mutant: no unique index on the place of a plant.
InsertPlantAnyway(c) ==
  /\ At(c, "plant", {"approve"}) /\ Made(c) /\ UNCHANGED <<others, listing, accounts>>

\* A place has one plant, an application's form has no such index: the plant that
\* was read, or is found instead, gets the owner unless it has another one.
InsertPlant(c) ==
  LET k == calls[c].key
      read == calls[c].seen = "PLANT"
      taken == ~read /\ calls[c].who # None /\ owner[k] \notin {None, calls[c].who} IN
  /\ At(c, "plant", {"approve"})
  /\ IF read \/ (k \in Places /\ Registered(k))
       THEN /\ Goto(c, IF taken THEN "failed" ELSE IF calls[c].who = None THEN "mark" ELSE "give")
            /\ UNCHANGED <<plants, owner>>
       ELSE Made(c)
  /\ UNCHANGED <<others, listing, accounts>>

GivePlant(c) ==
  /\ At(c, "give", {"approve"}) /\ Goto(c, "mark")
  /\ owner' = [owner EXCEPT ![calls[c].key] = calls[c].who]
  /\ UNCHANGED <<others, listing, plants, accounts>>

MarkApproved(c) ==
  /\ At(c, "mark", {"approve"}) /\ Goto(c, "ok")
  /\ listing' = [listing EXCEPT ![calls[c].key].status = "APPROVED"]
  /\ UNCHANGED <<others, plants, owner, accounts>>

\* reject_listing: a pending request, when it was read.
FindRejected(c) ==
  /\ At(c, "sent", {"reject"})
  /\ Goto(c, IF Status(c) = "PENDING" THEN "mark" ELSE "failed")
  /\ UNCHANGED <<others, stores>>

MarkRejected(c) ==
  /\ At(c, "mark", {"reject"}) /\ Goto(c, "ok")
  /\ listing' = [listing EXCEPT ![calls[c].key].status = "REJECTED"]
  /\ UNCHANGED <<others, plants, owner, accounts>>

FindUnowned(c) ==
  /\ At(c, "sent", {"assign"})
  /\ Goto(c, IF owner[calls[c].key] = None THEN "account" ELSE "failed")
  /\ UNCHANGED <<others, stores>>

\* Mutant: the plant found unowned is given its owner.
OwnFound(c) ==
  /\ At(c, "own", {"assign"}) /\ Goto(c, "ok")
  /\ owner' = [owner EXCEPT ![calls[c].key] = calls[c].who]
  /\ UNCHANGED <<others, listing, plants, accounts>>

\* assign_first_owner: a plant that is owned by then is left.
Own(c) ==
  /\ At(c, "own", {"assign"})
  /\ IF owner[calls[c].key] = None
       THEN Goto(c, "ok") /\ owner' = [owner EXCEPT ![calls[c].key] = calls[c].who]
       ELSE Goto(c, "failed") /\ UNCHANGED owner
  /\ UNCHANGED <<others, listing, plants, accounts>>

\* Answers of the routes that are no card's.
Answered(c) ==
  /\ calls[c].kind # "ask" /\ calls[c].pc \in {"ok", "failed"}
  /\ calls' = [calls EXCEPT ![c] = Free] /\ UNCHANGED <<others, stores>>

Next ==
  \/ Discover \/ Discovered \/ StopWaiting
  \/ \E k \in Places : RequestListing(k) \/ Import(k)
  \/ \E k \in Keys :
       \/ \E who \in People : Apply(k, who) \/ Assign(k, who)
       \/ \E who \in People \cup {None} : Review("approve", k, who)
       \/ Review("reject", k, None)
  \/ \E c \in Calls :
       \/ ListingAnswered(c) \/ FindListing(c) \/ WriteListing(c)
       \/ FindApplication(c) \/ InsertApplication(c) \/ FindPending(c) \/ Provision(c)
       \/ InsertPlant(c) \/ GivePlant(c) \/ MarkApproved(c) \/ FindRejected(c) \/ MarkRejected(c)
       \/ FindUnowned(c) \/ Own(c) \/ Answered(c)

Spec == Init /\ [][Next]_vars

-----------------------------------------------------------------------------
\* Requests, imports, applications and approvals of one place, in any order and
\* again after lost answers, make one plant of it.
OnePlantPerPlace == \A k \in Places : plants[k] <= 1

\* An assignment never takes a plant from an owner it was given meanwhile, by an
\* approval or another assignment.
AssignmentKeepsOwner ==
  [][\A c \in Calls : calls[c].pc = "own" /\ calls'[c].pc # "own"
       => \A k \in Keys : owner[k] # None => owner'[k] = owner[k]]_vars

\* "Only pending plant listings can be rejected" (plant_discovery.py).
OnlyPendingRejected ==
  [][\A k \in Keys : listing'[k].status = "REJECTED" /\ listing[k].status # "REJECTED"
       => listing[k].status = "PENDING"]_vars
=============================================================================
