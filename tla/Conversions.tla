---------------------------- MODULE Conversions ----------------------------
(***************************************************************************)
(* What one field of a spec goes through: the user writes it, a request    *)
(* carries it to AWS, AWS resolves it, and it comes back twice, in the     *)
(* answer to the request (sdkCreate, sdkUpdate) and in every later read    *)
(* (refreshSpecFromActiveVersion).  The two ways back are separate copies  *)
(* of the same conversions; a disagreement between them, or between them   *)
(* and the request, shows as a difference that no rebuild removes.         *)
(*                                                                         *)
(* A run follows the one field that Init picks, since fields are converted *)
(* and compared independently.  A reconciliation is one step here: its     *)
(* interleavings are the subject of MicrovmImage and Microvm.              *)
(*                                                                         *)
(* In a CR a field that is left out is NIL.  In an SDK structure a pointer *)
(* or a slice that is left out is NIL too, but an enum is Empty (""), and  *)
(* logging is a union that has one member.                                 *)
(*                                                                         *)
(* An operator that nothing uses is a faulty form of the definition it     *)
(* precedes, kept to show that a run notices the fault.                    *)
(***************************************************************************)
EXTENDS Integers, Sequences

CONSTANTS
    Texts,           \* strings
    Minors,          \* minor components of a base image version
    Patches,         \* patch components
    Min32, Max32,    \* the range of an int32
    NIL,             \* left out
    Empty,           \* the empty string
    None,            \* no image or VM yet
    AdoptsEmpty,     \* fields that may be empty in an adopted image
    MaxCauses,       \* how often the field changes or an answer is lost
    MaxRebuilds      \* how often another field makes a rebuild

ImageFields == {"description", "baseImageVersion", "cpuConfigurations", "resources",
                "egressNetworkConnectors", "hooks", "logging"}
MicrovmFields == {"maximumDurationInSeconds"}
Lists == {"cpuConfigurations", "resources", "egressNetworkConnectors"}

ASSUME ConversionsAssumption ==
    /\ Min32 \in Int /\ Max32 \in Int /\ Min32 <= 0 /\ 0 <= Max32
    /\ MaxCauses \in Nat /\ MaxRebuilds \in Nat
    /\ AdoptsEmpty \subseteq ImageFields
    /\ Minors # {} /\ Patches # {} /\ Texts # {}

VARIABLES
    field,    \* the field that is followed
    spec,     \* its value in the CR
    asked,    \* what the user wrote last
    cloud,    \* its value in the active version, or in the VM
    adopted,  \* the CR was adopted and the field not edited since
    status,   \* how the last reconciliation ended, "none" after a change
    causes,   \* edits, changes behind the controller's back, lost answers
    rebuilds, \* rebuilds made because of this field
    others    \* rebuilds made because of another field

vars == <<field, spec, asked, cloud, adopted, status, causes, rebuilds, others>>

InInt32(n) == n = NIL \/ n \in Min32..Max32

\* Within the range, at both of its ends, and just out of it.
Numbers == {0, Min32, Max32, Min32 - 1, Max32 + 1}

\* What a user may write, if anything.
Given(f) ==
    CASE f = "description" -> Texts
      [] f = "baseImageVersion" -> [minor: Minors, patch: Patches \cup {NIL}]
      [] f = "cpuConfigurations" -> {<<>>} \cup {<<a>> : a \in Texts \cup {NIL, Empty}}
      [] f = "resources" -> {<<>>} \cup {<<n>> : n \in Numbers \cup {NIL}}
      [] f = "egressNetworkConnectors" -> {<<>>} \cup {<<c>> : c \in Texts}
      [] f = "hooks" -> [state: Texts \cup {NIL, Empty}, timeout: Numbers \cup {NIL}]
      [] f = "logging" -> [cloudWatch: Texts \cup {NIL}, disabled: BOOLEAN]
      [] f = "maximumDurationInSeconds" -> Numbers

SpecValues(f) == Given(f) \cup {NIL}

\* The members of the logging union of the SDK.
Members == [member: {"cloudWatch", "disabled"}, group: Texts \cup {NIL}]

\* What is left out is no value, and a text is not empty.
ASSUME NilAssumption ==
    /\ NIL \notin Texts \cup Members \cup {Empty}
    /\ \A f \in ImageFields \cup MicrovmFields : NIL \notin Given(f)
    /\ Empty \notin Texts

-----------------------------------------------------------------------------
(* From the CR to the request.                                             *)

NoPayloadError(f, v) == "none"

\* The error of newCreateRequestPayload and newUpdateRequestPayload.  A number
\* out of range is a plain error, which is retried; two members of a union are
\* a terminal one.
PayloadError(f, v) ==
    IF v = NIL THEN "none"
    ELSE CASE f = "resources" /\ (\E i \in DOMAIN v : ~InInt32(v[i])) -> "retry"
           [] f = "hooks" /\ ~InInt32(v.timeout) -> "retry"
           [] f = "maximumDurationInSeconds" /\ ~InInt32(v) -> "retry"
           [] f = "logging" /\ v.cloudWatch # NIL /\ v.disabled -> "terminal"
           [] OTHER -> "none"

\* The Go conversion int32(n), which wraps.
int32(n) == IF n = NIL THEN NIL ELSE ((n - Min32) % (Max32 - Min32 + 1)) + Min32

enumToSDK(e) == IF e = NIL THEN Empty ELSE e

loggingToSDK(v) ==
    IF v.cloudWatch # NIL THEN [member |-> "cloudWatch", group |-> v.cloudWatch]
    ELSE IF v.disabled THEN [member |-> "disabled", group |-> NIL]
    ELSE NIL

\* A base image version is sent as the user wrote it.
Request(f, v) ==
    IF v = NIL THEN NIL
    ELSE CASE f = "cpuConfigurations" -> [i \in DOMAIN v |-> enumToSDK(v[i])]
           [] f = "resources" -> [i \in DOMAIN v |-> int32(v[i])]
           [] f = "hooks" -> [state |-> enumToSDK(v.state), timeout |-> int32(v.timeout)]
           [] f = "logging" -> loggingToSDK(v)
           [] f = "maximumDurationInSeconds" -> int32(v)
           [] OTHER -> v

-----------------------------------------------------------------------------
(* What AWS makes of a request.                                            *)

\* The validator takes a minor version only.
Accepts(f, q) == f = "baseImageVersion" /\ q # NIL => q.patch = NIL

NoHooks == [state |-> Empty, timeout |-> NIL]

\* AWS chooses the patch, gives a default to what generator.yaml names, and may
\* report an empty list or structure as none at all.
Resolve(f, q) ==
    CASE f = "baseImageVersion" ->
             {v \in [minor: Minors, patch: Patches] : q # NIL => v.minor = q.minor}
      [] f = "egressNetworkConnectors" /\ q = NIL -> {<<CHOOSE c \in Texts : TRUE>>}
      [] f = "resources" /\ q = NIL -> {<<0>>}
      [] f = "maximumDurationInSeconds" /\ q = NIL -> {0}
      [] f \in Lists /\ q = <<>> -> {<<>>, NIL}
      [] f = "hooks" /\ q = NoHooks -> {NoHooks, NIL}
      [] OTHER -> {q}

\* What AWS may report of an image.
Reportable(f) ==
    UNION {Resolve(f, Request(f, v)) :
              v \in {s \in SpecValues(f) :
                        PayloadError(f, s) = "none" /\ Accepts(f, Request(f, s))}}

-----------------------------------------------------------------------------
(* From AWS to the CR.                                                     *)

enumFromSDK(e) == IF e = Empty THEN NIL ELSE e

sanitizeNothing(v) == v
sanitizeBaseImageVersion(v) == IF v = NIL THEN NIL ELSE [v EXCEPT !.patch = NIL]

cpuConfigurationsVerbatim(c) == c
cpuConfigurationsFromSDK(c) ==
    IF c = NIL THEN NIL ELSE [i \in DOMAIN c |-> enumFromSDK(c[i])]

hooksFromSDK(c) ==
    IF c = NIL THEN NIL ELSE [state |-> enumFromSDK(c.state), timeout |-> c.timeout]

loggingFromSDK(c) ==
    IF c = NIL THEN NIL
    ELSE [cloudWatch |-> IF c.member = "cloudWatch" THEN c.group ELSE NIL,
          disabled |-> c.member = "disabled"]

\* aws.StringSlice makes an empty slice of none.
StringSlice(c) == IF c = NIL THEN <<>> ELSE c

\* refreshSpecFromActiveVersion, in every read.
Refreshed(f, c) ==
    CASE f = "baseImageVersion" -> sanitizeBaseImageVersion(c)
      [] f = "cpuConfigurations" -> cpuConfigurationsFromSDK(c)
      [] f = "egressNetworkConnectors" -> StringSlice(c)
      [] f = "hooks" -> hooksFromSDK(c)
      [] f = "logging" -> loggingFromSDK(c)
      [] OTHER -> c

\* The merge of an answer, generated code with conversions of its own.
Answered(f, c) ==
    CASE f = "baseImageVersion" -> sanitizeBaseImageVersion(c)
      [] f = "cpuConfigurations" /\ c # NIL -> [i \in DOMAIN c |-> enumFromSDK(c[i])]
      [] f = "hooks" /\ c # NIL -> [c EXCEPT !.state = enumFromSDK(@)]
      [] f = "logging" -> loggingFromSDK(c)
      [] OTHER -> c

\* The API types leave out an empty list and an empty map (omitempty).
Marshalled(f, v) ==
    CASE f \in Lists /\ v = <<>> -> NIL
      [] f = "logging" /\ v # NIL -> [v EXCEPT !.disabled = FALSE]
      [] OTHER -> v

\* The merge patch from s to v.  What is left out of both stays as it was.
Stored(f, s, v) ==
    LET new == Marshalled(f, v)
    IN IF Marshalled(f, s) = new THEN s
       ELSE IF f = "logging" /\ s # NIL /\ new # NIL
       THEN [new EXCEPT !.disabled = s.disabled]
       ELSE new

-----------------------------------------------------------------------------
(* newResourceDelta.                                                       *)

\* HasNilDifference of the runtime, taken by its name: "" and {} are not nil.
HasNilDifference(a, b) == (a = NIL) # (b = NIL)

PointersDiffer(a, b) == HasNilDifference(a, b) \/ (NIL \notin {a, b} /\ a # b)

Size(s) == IF s = NIL THEN 0 ELSE Len(s)

\* Lists of the same size are compared element by element.  The contents of the
\* map logging.disabled are not compared.
Differ(f, a, b) ==
    CASE f \in Lists -> Size(a) # Size(b) \/ (Size(a) > 0 /\ a # b)
      [] f = "hooks" ->
             \/ HasNilDifference(a, b)
             \/ /\ NIL \notin {a, b}
                /\ PointersDiffer(a.state, b.state) \/ PointersDiffer(a.timeout, b.timeout)
      [] f = "logging" ->
             \/ HasNilDifference(a, b)
             \/ /\ NIL \notin {a, b}
                /\ \/ PointersDiffer(a.cloudWatch, b.cloudWatch)
                   \/ a.disabled # b.disabled
      [] OTHER -> PointersDiffer(a, b)

-----------------------------------------------------------------------------
Init ==
    /\ field \in ImageFields \cup MicrovmFields
    /\ spec \in SpecValues(field)
    /\ asked = spec
    /\ cloud = None
    /\ adopted = FALSE
    /\ status = "none"
    /\ causes = 0
    /\ rebuilds = 0
    /\ others = 0

\* The payload cannot be built, or AWS rejects it (a ValidationException is
\* terminal): nothing changes in AWS.
NotSent ==
    /\ \/ PayloadError(field, spec) # "none" /\ status' = PayloadError(field, spec)
       \/ /\ PayloadError(field, spec) = "none"
          /\ ~Accepts(field, Request(field, spec))
          /\ status' = "terminal"
    /\ UNCHANGED <<spec, cloud, causes>>

\* AWS takes the request.  The answer reaches the CR unless the patch fails.
Sent ==
    /\ PayloadError(field, spec) = "none"
    /\ Accepts(field, Request(field, spec))
    /\ cloud' \in Resolve(field, Request(field, spec))
    /\ \/ /\ spec' = Stored(field, spec, Answered(field, cloud'))
          /\ status' = "ok"
          /\ UNCHANGED causes
       \/ /\ causes < MaxCauses
          /\ causes' = causes + 1
          /\ status' = "retry"
          /\ UNCHANGED spec

Create ==
    /\ cloud = None
    /\ NotSent \/ Sent
    /\ UNCHANGED <<field, asked, adopted, rebuilds, others>>

\* AWS values whose form in the CR is an empty list or holds an empty map.
IsEmpty(f, c) ==
    \/ f \in Lists /\ Size(c) = 0
    \/ f = "logging" /\ c # NIL /\ c.member = "disabled"

\* The adopt policy: the CR starts without the field, and the first read fills it.
Adopt ==
    /\ cloud = None
    /\ field \in ImageFields
    /\ spec = NIL
    /\ cloud' \in {c \in Reportable(field) : IsEmpty(field, c) => field \in AdoptsEmpty}
    /\ spec' = Stored(field, NIL, Refreshed(field, cloud'))
    /\ adopted' = TRUE
    /\ status' = "ok"
    /\ UNCHANGED <<field, asked, causes, rebuilds, others>>

Drifted == cloud # None /\ Differ(field, spec, Refreshed(field, cloud))

Agrees ==
    /\ cloud # None
    /\ ~Drifted
    /\ status' = "ok"
    /\ UNCHANGED <<field, spec, asked, cloud, adopted, causes, rebuilds, others>>

\* sdkUpdate of an image: a difference is a rebuild.
Rebuild ==
    /\ Drifted
    /\ field \in ImageFields
    /\ \/ NotSent /\ UNCHANGED rebuilds
       \/ Sent /\ rebuilds' = rebuilds + 1
    /\ UNCHANGED <<field, asked, adopted, others>>

\* sdkUpdate of a Microvm: a difference is a terminal error.
NotImplemented ==
    /\ Drifted
    /\ field \in MicrovmFields
    /\ status' = "terminal"
    /\ UNCHANGED <<field, spec, asked, cloud, adopted, causes, rebuilds, others>>

\* Another field differs: the request carries this one along.
RebuildOther ==
    /\ cloud # None
    /\ field \in ImageFields
    /\ others < MaxRebuilds
    /\ others' = others + 1
    /\ NotSent \/ Sent
    /\ UNCHANGED <<field, asked, adopted, rebuilds>>

Edit ==
    /\ causes < MaxCauses
    /\ causes' = causes + 1
    /\ spec' \in SpecValues(field) \ {spec}
    /\ asked' = spec'
    /\ adopted' = FALSE
    /\ status' = "none"
    /\ UNCHANGED <<field, cloud, rebuilds, others>>

\* Somebody builds a version of the image with another tool.
Outside ==
    /\ cloud # None
    /\ field \in ImageFields
    /\ causes < MaxCauses
    /\ causes' = causes + 1
    /\ cloud' \in Reportable(field)
    /\ status' = "none"
    /\ UNCHANGED <<field, spec, asked, adopted, rebuilds, others>>

Next ==
    \/ Create \/ Adopt
    \/ Agrees \/ Rebuild \/ NotImplemented \/ RebuildOther
    \/ Edit \/ Outside

Spec == Init /\ [][Next]_vars

-----------------------------------------------------------------------------
(* Properties.                                                             *)

\* The user left the field, or all of its members, to AWS.
LeftToAWS(f, a) ==
    \/ a = NIL
    \/ f = "hooks" /\ a.state \in {NIL, Empty} /\ a.timeout = NIL
    \/ f = "logging" /\ a.cloudWatch = NIL /\ ~a.disabled

\* AWS value c does what the user wrote as a.  A part left out asks for nothing.
Honours(f, a, c) ==
    \/ LeftToAWS(f, a)
    \/ f = "baseImageVersion" /\ a.patch = NIL /\ c.minor = a.minor
    \/ /\ f \in Lists
       /\ Size(c) = Size(a)
       /\ \A i \in 1..Size(a) : a[i] \in {NIL, Empty} \/ c[i] = a[i]
    \/ /\ f = "hooks"
       /\ c # NIL
       /\ a.state \in {NIL, Empty} \/ c.state = a.state
       /\ a.timeout = NIL \/ c.timeout = a.timeout
    \/ /\ f = "logging"
       /\ c # NIL
       /\ c = IF a.disabled THEN [member |-> "disabled", group |-> NIL]
                            ELSE [member |-> "cloudWatch", group |-> a.cloudWatch]
       /\ a.disabled => a.cloudWatch = NIL
    \/ f \in {"description", "maximumDurationInSeconds"} /\ c = a

\* What an AWS value stands for: the patch is the builder's choice, and an empty
\* list or structure is as good as none.
Meaning(f, c) ==
    CASE f = "baseImageVersion" -> c.minor
      [] f \in Lists /\ c = NIL -> <<>>
      [] f = "hooks" /\ c = NIL -> NoHooks
      [] OTHER -> c

\* A reconciliation that ends well leaves AWS with what the user wrote last: no
\* number is truncated on its way into an int32 (sdk.go:345-350), no version is
\* rewritten, no member of a union is dropped and no difference goes unnoticed.
Honoured == status = "ok" => Honours(field, asked, cloud)

\* Every rebuild has a cause: the field was edited, changed behind the
\* controller's back, or an answer was lost.  The read and the answer agree on
\* every value, or each reconciliation would rebuild the image once more
\* (hooks_test.go:94-100).
NoPerpetualDrift == rebuilds <= causes

\* A rebuild that another field causes carries this field along unchanged.  What
\* the controller wrote into the CR, in particular the sanitized version and all
\* that an adopted CR holds, is a spec that AWS accepts and builds the same from
\* (hooks.go:90-98).
RebuildKeepsField ==
    [][ /\ RebuildOther
        /\ status = "ok"
        /\ adopted \/ ~LeftToAWS(field, asked)
      => /\ status' # "terminal"
         /\ Meaning(field, cloud') = Meaning(field, cloud) ]_vars
=============================================================================
