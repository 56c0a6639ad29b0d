------------------------------ MODULE Managed ------------------------------
(***************************************************************************)
(* What the controller promises about a custom resource (CR) and the cloud *)
(* resources that exist on its behalf, whatever their kind: the abstract   *)
(* specification that modules Microvm and MicrovmImage implement.          *)
(*                                                                         *)
(*   - nothing is created before the finalizer is in place, nor while the  *)
(*     resource that the CR has recorded might still be known to the cloud *)
(*   - the record names a resource that was created; it is never erased,   *)
(*     and replaced only when the cloud has forgotten the resource         *)
(*   - a managed CR goes away only after its user deleted it and the       *)
(*     recorded resource reached a state in which it may be released       *)
(*                                                                         *)
(* How reads, retries, patches, failures and crashes lead there is left to *)
(* the implementations.  What a lost answer created is never recorded, and *)
(* nothing is promised about it.                                           *)
(***************************************************************************)

CONSTANTS
    Ids,          \* identifiers of cloud resources
    NIL,          \* no identifier is recorded
    Fresh,        \* states of an identifier that can be handed out
    Released      \* states in which the controller lets go of a resource

VARIABLES
    phase,    \* of the CR: "new", "managed" (has the finalizer), "removed"
    asked,    \* the user has deleted the CR
    record,   \* the identifier in the status of the CR
    cloud     \* the state of the resource behind each identifier

vars == <<phase, asked, record, cloud>>

\* The life of a cloud resource.  An "ending" one was asked to go, an "over" one
\* has stopped but is still reported, a "gone" one is not known any more.
States == {"unused", "alive", "ending", "over", "gone"}

Later == {<<"alive", "ending">>, <<"ending", "over">>, <<"ending", "gone">>, <<"over", "gone">>}

Replaceable == record = NIL \/ cloud[record] = "gone"

Init ==
    /\ phase = "new"
    /\ asked = FALSE
    /\ record = NIL
    /\ cloud \in [Ids -> Fresh]

Manage ==
    /\ phase = "new"
    /\ phase' = "managed"
    /\ UNCHANGED <<asked, record, cloud>>

\* A cloud resource is created.
Begin(i) ==
    /\ phase = "managed"
    /\ cloud[i] \in Fresh
    /\ Replaceable
    /\ cloud' = [cloud EXCEPT ![i] = "alive"]
    /\ UNCHANGED <<phase, asked, record>>

\* A created resource is recorded in the CR.
Record(i) ==
    /\ phase = "managed"
    /\ record' = i
    /\ Replaceable
    /\ cloud[i] # "unused"
    /\ UNCHANGED <<phase, asked, cloud>>

\* A cloud resource comes closer to its end, at the request of the controller or
\* on its own.
Advance(i) ==
    /\ <<cloud[i], cloud'[i]>> \in Later
    /\ cloud' = [cloud EXCEPT ![i] = cloud'[i]]
    /\ UNCHANGED <<phase, asked, record>>

\* The user deletes the CR; one without the finalizer is removed at once.
Ask ==
    /\ ~asked
    /\ phase # "removed"
    /\ asked' = TRUE
    /\ phase' = IF phase = "new" THEN "removed" ELSE phase
    /\ UNCHANGED <<record, cloud>>

\* The finalizer is removed, and with it the CR.
Remove ==
    /\ phase = "managed"
    /\ asked
    /\ record # NIL => cloud[record] \in Released
    /\ phase' = "removed"
    /\ UNCHANGED <<asked, record, cloud>>

Next ==
    \/ Manage \/ Ask \/ Remove
    \/ \E i \in Ids : Begin(i) \/ Record(i) \/ Advance(i)

Spec == Init /\ [][Next]_vars

-----------------------------------------------------------------------------
(* What follows from the promise alone.                                    *)

\* What it takes of an instance: a released resource stays released.
Sound ==
    /\ NIL \notin Ids
    /\ Fresh \subseteq States
    /\ \A p \in Later : p[1] \in Released => p[2] \in Released

\* No CR is removed and leaves a recorded resource behind that is not released.
NothingAbandoned == phase = "removed" /\ record # NIL => cloud[record] \in Released

=============================================================================
