------------------------- MODULE ConversionsProofs -------------------------
(***************************************************************************)
(* What holds of Conversions for all texts, versions and ranges of an      *)
(* int32, and for every number of edits, lost answers and rebuilds.        *)
(*                                                                         *)
(* First, Carries says what a request and AWS make of each spec value.     *)
(* Then three facts about each kind of field: an answer settles it         *)
(* (Settled), a spec without a difference is honoured (AgreedHonoured) and *)
(* is sent again to the same effect (AgreedKept).  The invariant follows   *)
(* from these.                                                             *)
(***************************************************************************)
EXTENDS Conversions, TLAPS

Fields == ImageFields \cup MicrovmFields

-----------------------------------------------------------------------------
(* A request and what AWS makes of it, in one relation.                    *)

\* The request for s is sent, and AWS may resolve it to c.
Sends(f, s, c) ==
    /\ PayloadError(f, s) = "none" /\ Accepts(f, Request(f, s))
    /\ c \in Resolve(f, Request(f, s))

NoLogging == [cloudWatch |-> NIL, disabled |-> FALSE]
Disabled == [cloudWatch |-> NIL, disabled |-> TRUE]

\* The pairs of a spec and an AWS value that Sends relates, field by field.
Carries(f, s, c) ==
    CASE f = "description" -> s \in Texts \cup {NIL} /\ c = s
      [] f = "baseImageVersion" ->
            /\ c \in [minor: Minors, patch: Patches]
            /\ s \in {NIL, [minor |-> c.minor, patch |-> NIL]}
      [] f = "cpuConfigurations" ->
            \/ s = NIL /\ c = NIL
            \/ s = <<>> /\ c \in {<<>>, NIL}
            \/ s \in {<<NIL>>, <<Empty>>} /\ c = <<Empty>>
            \/ \E x \in Texts : s = <<x>> /\ c = <<x>>
      [] f = "resources" ->
            \/ s = NIL /\ c = <<0>>
            \/ s = <<>> /\ c \in {<<>>, NIL}
            \/ \E n \in Numbers \cup {NIL} : InInt32(n) /\ s = <<n>> /\ c = <<n>>
      [] f = "egressNetworkConnectors" ->
            \/ s = NIL /\ \E x \in Texts : c = <<x>>
            \/ s = <<>> /\ c \in {<<>>, NIL}
            \/ \E x \in Texts : s = <<x>> /\ c = <<x>>
      [] f = "hooks" ->
            \/ s = NIL /\ c = NIL
            \/ /\ s \in Given("hooks") /\ InInt32(s.timeout)
               /\ c = [state |-> enumToSDK(s.state), timeout |-> s.timeout]
            \/ /\ s \in Given("hooks") /\ s.state \in {NIL, Empty} /\ s.timeout = NIL
               /\ c = NIL
      [] f = "logging" ->
            \/ s \in {NIL, NoLogging} /\ c = NIL
            \/ s = Disabled /\ c = [member |-> "disabled", group |-> NIL]
            \/ \E g \in Texts :
                 /\ s = [cloudWatch |-> g, disabled |-> FALSE]
                 /\ c = [member |-> "cloudWatch", group |-> g]
      [] f = "maximumDurationInSeconds" ->
            \/ s = NIL /\ c = 0
            \/ s \in Numbers /\ InInt32(s) /\ c = s

\* int32 changes no number that fits.
LEMMA Int32Keeps ==
    ASSUME NEW n \in Int \cup {NIL}, InInt32(n)
    PROVE  int32(n) = n
<1>1. CASE n = NIL
  BY <1>1 DEF int32
<1>2. CASE n # NIL
  <2>1. n \in Min32..Max32 /\ Min32 \in Int /\ Max32 \in Int
    BY <1>2, ConversionsAssumption DEF InInt32
  <2> DEFINE m == n - Min32
             k == Max32 - Min32 + 1
  <2>2. m \in Int /\ k \in Int /\ 0 <= m /\ m < k
    BY <2>1
  <2>3. m % k = m
    <3> HIDE DEF m, k
    <3>1. QED
      BY <2>2
  <2>4. QED
    BY <1>2, <2>1, <2>3 DEF int32
<1>3. QED
  BY <1>1, <1>2

LEMMA NumbersFit == Numbers \subseteq Int /\ 0 \in Numbers /\ InInt32(0)
BY ConversionsAssumption DEF Numbers, InInt32

\* Converting the elements of a list that has one.
LEMMA ConvertedList ==
    ASSUME NEW x
    PROVE  /\ [i \in DOMAIN <<x>> |-> enumToSDK(<<x>>[i])] = <<enumToSDK(x)>>
           /\ [i \in DOMAIN <<x>> |-> enumFromSDK(<<x>>[i])] = <<enumFromSDK(x)>>
           /\ [i \in DOMAIN <<x>> |-> int32(<<x>>[i])] = <<int32(x)>>
           /\ (\E i \in DOMAIN <<x>> : ~InInt32(<<x>>[i])) <=> ~InInt32(x)
           /\ Len(<<x>>) = 1 /\ <<x>> # <<>> /\ <<x>>[1] = x
<1>1. DOMAIN <<x>> = 1..1 /\ Len(<<x>>) = 1 /\ <<x>>[1] = x
  OBVIOUS
<1>2. <<enumToSDK(x)>> = [i \in 1..1 |-> enumToSDK(x)]
  OBVIOUS
<1>3. <<enumFromSDK(x)>> = [i \in 1..1 |-> enumFromSDK(x)]
  OBVIOUS
<1>4. <<int32(x)>> = [i \in 1..1 |-> int32(x)]
  OBVIOUS
<1>5. [i \in DOMAIN <<x>> |-> enumToSDK(<<x>>[i])] = [i \in 1..1 |-> enumToSDK(x)]
  BY <1>1
<1>6. [i \in DOMAIN <<x>> |-> enumFromSDK(<<x>>[i])] = [i \in 1..1 |-> enumFromSDK(x)]
  BY <1>1
<1>7. [i \in DOMAIN <<x>> |-> int32(<<x>>[i])] = [i \in 1..1 |-> int32(x)]
  BY <1>1
<1>8. (\E i \in DOMAIN <<x>> : ~InInt32(<<x>>[i])) <=> ~InInt32(x)
  BY <1>1
<1>9. <<x>> # <<>>
  OBVIOUS
<1>10. QED
  BY <1>1, <1>2, <1>3, <1>4, <1>5, <1>6, <1>7, <1>8, <1>9

LEMMA NilDistinct ==
    /\ NIL \notin Texts /\ NIL \notin Members /\ NIL # Empty /\ Empty \notin Texts
    /\ NIL # <<>>
    /\ \A f \in Fields : NIL \notin Given(f)
<1>1. "cpuConfigurations" \in Fields /\ <<>> \in Given("cpuConfigurations")
  BY DEF Fields, ImageFields, Given
<1>2. QED
  BY <1>1, NilAssumption DEF Fields

\* The list fields.
LEMMA ListCarried ==
    ASSUME NEW f \in Lists, NEW s \in SpecValues(f), NEW c, Sends(f, s, c)
    PROVE  Carries(f, s, c)
<1>1. CASE f = "cpuConfigurations"
  <2>1. s = NIL \/ s = <<>> \/ \E x \in Texts \cup {NIL, Empty} : s = <<x>>
    BY <1>1 DEF SpecValues, Given
  <2>2. CASE s = NIL
    BY <1>1, <2>2, NilDistinct DEF Sends, Request, Resolve, Carries, Lists
  <2>3. CASE s = <<>>
    <3>1. Request(f, s) = <<>>
      BY <1>1, <2>3, NilDistinct DEF Request
    <3>2. QED
      BY <1>1, <2>3, <3>1, NilDistinct DEF Sends, Resolve, Carries, Lists
  <2>4. ASSUME NEW x \in Texts \cup {NIL, Empty}, s = <<x>>
        PROVE  Carries(f, s, c)
    <3>1. s # NIL
      BY <1>1, <2>4, NilDistinct DEF Fields, ImageFields, Given
    <3>2. Request(f, s) = <<enumToSDK(x)>>
      BY <1>1, <2>4, <3>1, ConvertedList DEF Request
    <3>3. c = <<enumToSDK(x)>>
      BY <1>1, <3>2, ConvertedList, NilDistinct DEF Sends, Resolve, Lists
    <3>4. QED
      BY <1>1, <2>4, <3>3 DEF Carries, enumToSDK
  <2>5. QED
    BY <2>1, <2>2, <2>3, <2>4
<1>2. CASE f = "resources"
  <2>1. s = NIL \/ s = <<>> \/ \E n \in Numbers \cup {NIL} : s = <<n>>
    BY <1>2 DEF SpecValues, Given
  <2>2. CASE s = NIL
    BY <1>2, <2>2, NilDistinct DEF Sends, Request, Resolve, Carries, Lists
  <2>3. CASE s = <<>>
    <3>1. Request(f, s) = <<>>
      BY <1>2, <2>3, NilDistinct DEF Request
    <3>2. QED
      BY <1>2, <2>3, <3>1, NilDistinct DEF Sends, Resolve, Carries, Lists
  <2>4. ASSUME NEW n \in Numbers \cup {NIL}, s = <<n>>
        PROVE  Carries(f, s, c)
    <3>1. s # NIL
      BY <1>2, <2>4, NilDistinct DEF Fields, ImageFields, Given
    <3>2. InInt32(n)
      BY <1>2, <2>4, <3>1, ConvertedList DEF Sends, PayloadError
    <3>3. Request(f, s) = <<int32(n)>>
      BY <1>2, <2>4, <3>1, ConvertedList DEF Request
    <3>4. int32(n) = n
      BY <2>4, <3>2, Int32Keeps, NumbersFit
    <3>5. c = <<n>>
      BY <1>2, <3>1, <2>4, <3>3, <3>4, ConvertedList DEF Sends, Resolve, Lists
    <3>6. QED
      BY <1>2, <2>4, <3>2, <3>5 DEF Carries
  <2>5. QED
    BY <2>1, <2>2, <2>3, <2>4
<1>3. CASE f = "egressNetworkConnectors"
  <2>1. s = NIL \/ s = <<>> \/ \E x \in Texts : s = <<x>>
    BY <1>3 DEF SpecValues, Given
  <2>2. CASE s = NIL
    <3>1. (CHOOSE x \in Texts : TRUE) \in Texts
      BY ConversionsAssumption
    <3>2. c = <<CHOOSE x \in Texts : TRUE>>
      BY <1>3, <2>2, NilDistinct DEF Sends, Request, Resolve, Lists
    <3>3. QED
      BY <1>3, <2>2, <3>1, <3>2 DEF Carries
  <2>3. CASE s = <<>>
    BY <1>3, <2>3, NilDistinct DEF Sends, Request, Resolve, Carries, Lists
  <2>4. ASSUME NEW x \in Texts, s = <<x>>
        PROVE  Carries(f, s, c)
    <3>1. s # NIL
      BY <1>3, <2>4, NilDistinct DEF Fields, ImageFields, Given
    <3>2. c = <<x>>
      BY <1>3, <2>4, <3>1, ConvertedList DEF Sends, Request, Resolve, Lists
    <3>3. QED
      BY <1>3, <2>4, <3>2 DEF Carries
  <2>5. QED
    BY <2>1, <2>2, <2>3, <2>4
<1>4. QED
  BY <1>1, <1>2, <1>3 DEF Lists

LEMMA StructureCarried ==
    ASSUME NEW f \in {"hooks", "logging"}, NEW s \in SpecValues(f), NEW c, Sends(f, s, c)
    PROVE  Carries(f, s, c)
<1>1. CASE s = NIL
  BY <1>1, NilDistinct DEF Sends, Request, Resolve, Carries, NoHooks, Lists, Given
<1>2. CASE s # NIL /\ f = "hooks"
  <2>1. s \in Given("hooks")
    BY <1>2 DEF SpecValues
  <2>2. s.state \in Texts \cup {NIL, Empty} /\ s.timeout \in Numbers \cup {NIL}
    BY <2>1 DEF Given
  <2>3. InInt32(s.timeout)
    BY <1>2 DEF Sends, PayloadError
  <2>4. int32(s.timeout) = s.timeout
    BY <2>2, <2>3, Int32Keeps, NumbersFit
  <2> DEFINE q == [state |-> enumToSDK(s.state), timeout |-> s.timeout]
  <2>5. Request(f, s) = q
    BY <1>2, <2>4 DEF Request
  <2>6. q = NoHooks => s.state \in {NIL, Empty} /\ s.timeout = NIL
    BY DEF NoHooks, enumToSDK
  <2>7. c = q \/ (q = NoHooks /\ c = NIL)
    BY <1>2, <2>5 DEF Sends, Resolve, Lists
  <2>8. QED
    BY <1>2, <2>1, <2>3, <2>6, <2>7 DEF Carries
<1>3. CASE s # NIL /\ f = "logging"
  <2>1. /\ s \in [cloudWatch: Texts \cup {NIL}, disabled: BOOLEAN]
        /\ s.cloudWatch = NIL \/ ~s.disabled
    BY <1>3 DEF SpecValues, Given, Sends, PayloadError
  <2>2. c = loggingToSDK(s)
    BY <1>3 DEF Sends, Request, Resolve, Lists
  <2>3. CASE s.cloudWatch # NIL
    <3>1. /\ s = [cloudWatch |-> s.cloudWatch, disabled |-> FALSE] /\ s.cloudWatch \in Texts
          /\ c = [member |-> "cloudWatch", group |-> s.cloudWatch]
      BY <2>1, <2>2, <2>3 DEF loggingToSDK
    <3>2. QED
      BY <1>3, <3>1 DEF Carries
  <2>4. CASE s.cloudWatch = NIL /\ s.disabled
    <3>1. s = Disabled /\ c = [member |-> "disabled", group |-> NIL]
      BY <2>1, <2>2, <2>4 DEF loggingToSDK, Disabled
    <3>2. QED
      BY <1>3, <3>1 DEF Carries
  <2>5. CASE s.cloudWatch = NIL /\ ~s.disabled
    <3>1. s = NoLogging /\ c = NIL
      BY <2>1, <2>2, <2>5 DEF loggingToSDK, NoLogging
    <3>2. QED
      BY <1>3, <3>1 DEF Carries
  <2>6. QED
    BY <2>3, <2>4, <2>5
<1>4. QED
  BY <1>1, <1>2, <1>3

LEMMA Carried ==
    ASSUME NEW f \in Fields, NEW s \in SpecValues(f), NEW c, Sends(f, s, c)
    PROVE  Carries(f, s, c)
<1>1. CASE f \in Lists
  BY <1>1, ListCarried
<1>2. CASE f \in {"hooks", "logging"}
  BY <1>2, StructureCarried
<1>3. CASE f = "description"
  BY <1>3, NilDistinct DEF SpecValues, Given, Sends, Request, Resolve, Carries, Lists
<1>4. CASE f = "baseImageVersion"
  <2>1. Request(f, s) = s
    BY <1>4 DEF Request
  <2>2. /\ c \in [minor: Minors, patch: Patches]
        /\ s # NIL => c.minor = s.minor /\ s.patch = NIL
    BY <1>4, <2>1 DEF Sends, Accepts, Resolve, Lists
  <2>3. s # NIL => s \in [minor: Minors, patch: Patches \cup {NIL}]
    BY <1>4 DEF SpecValues, Given
  <2>4. s # NIL => s = [minor |-> c.minor, patch |-> NIL]
    BY <2>2, <2>3
  <2>5. QED
    BY <1>4, <2>2, <2>4 DEF Carries
<1>5. CASE f = "maximumDurationInSeconds"
  <2>1. CASE s = NIL
    <3>1. c = 0
      BY <1>5, <2>1 DEF Sends, Request, Resolve, Lists
    <3>2. QED
      BY <1>5, <2>1, <3>1 DEF Carries
  <2>2. CASE s # NIL
    <3>1. s \in Numbers /\ InInt32(s)
      BY <1>5, <2>2 DEF SpecValues, Given, Sends, PayloadError
    <3>2. int32(s) = s
      BY <3>1, Int32Keeps, NumbersFit
    <3>3. c = s
      BY <1>5, <2>2, <3>2 DEF Sends, Request, Resolve, Lists
    <3>4. QED
      BY <1>5, <3>1, <3>3 DEF Carries
  <2>3. QED
    BY <2>1, <2>2
<1>6. QED
  BY <1>1, <1>2, <1>3, <1>4, <1>5 DEF Fields, ImageFields, MicrovmFields, Lists

-----------------------------------------------------------------------------
(* What an answer leaves in the CR.                                        *)

\* s is what the user wrote as a, or what the answers made of it.
Follows(f, a, s) ==
    \/ LeftToAWS(f, a)
    \/ s = a
    \/ f = "cpuConfigurations" /\ a = <<Empty>> /\ s = <<NIL>>
    \/ f = "hooks" /\ a.state = Empty /\ s = [a EXCEPT !.state = NIL]

LEMMA FollowsLeft ==
    ASSUME NEW f, NEW a, NEW s, LeftToAWS(f, a)
    PROVE  Follows(f, a, s)
BY DEF Follows

LEMMA FollowsSelf ==
    ASSUME NEW f, NEW a
    PROVE  Follows(f, a, a)
BY DEF Follows

\* Nothing differs from itself.
LEMMA SameNeverDiffers ==
    ASSUME NEW f, NEW v
    PROVE  ~Differ(f, v, v)
<1>1. ~HasNilDifference(v, v) /\ \A x : ~PointersDiffer(x, x)
  BY DEF HasNilDifference, PointersDiffer
<1>2. CASE f \in Lists
  BY <1>2 DEF Differ, Lists
<1>3. CASE f \notin Lists
  BY <1>1, <1>3 DEF Differ
<1>4. QED
  BY <1>2, <1>3

LEMMA ListSettles ==
    ASSUME NEW f \in Lists, NEW s \in SpecValues(f), NEW c, Carries(f, s, c)
    PROVE  LET t == Stored(f, s, Answered(f, c))
           IN /\ t \in SpecValues(f) /\ ~Differ(f, t, Refreshed(f, c))
              /\ Follows(f, s, t)
              /\ s # NIL => t # NIL
<1> DEFINE t == Stored(f, s, Answered(f, c))
<1>2. CASE s = NIL /\ c = NIL /\ f = "cpuConfigurations"
  <2>1. t = NIL /\ Refreshed(f, c) = NIL
    BY <1>2 DEF Stored, Answered, Marshalled, Refreshed, cpuConfigurationsFromSDK, Lists
  <2>2. QED
    BY <1>2, <2>1 DEF Differ, Size, Lists, Follows, SpecValues
<1>3. CASE s = <<>> /\ c \in {<<>>, NIL}
  <2>1. t = <<>>
    <3>1. Answered(f, c) \in {<<>>, NIL}
      BY <1>3 DEF Answered, Lists
    <3>2. Marshalled(f, s) = NIL /\ Marshalled(f, Answered(f, c)) = NIL
      BY <1>3, <3>1 DEF Marshalled, Lists
    <3>3. QED
      BY <1>3, <3>2 DEF Stored
  <2>2. Refreshed(f, c) \in {<<>>, NIL}
    BY <1>3 DEF Refreshed, cpuConfigurationsFromSDK, StringSlice, Lists
  <2>3. QED
    BY <1>3, <2>1, <2>2, NilDistinct DEF Differ, Size, Lists, Follows
<1>4. ASSUME NEW x, NEW y, c = <<x>>, s = NIL \/ s = <<y>>,
             f = "cpuConfigurations" => x = Empty \/ x \in Texts,
             f = "resources" => x \in Numbers \cup {NIL},
             f = "egressNetworkConnectors" => x \in Texts,
             s # NIL => y = x \/ (x = Empty /\ f = "cpuConfigurations" /\ y = NIL)
      PROVE  /\ t \in SpecValues(f) /\ ~Differ(f, t, Refreshed(f, c))
             /\ Follows(f, s, t)
             /\ s # NIL => t # NIL
  <2> DEFINE z == IF f = "cpuConfigurations" THEN enumFromSDK(x) ELSE x
  <2>1. <<z>> \in Given(f)
    BY <1>4 DEF Given, enumFromSDK, Lists
  <2>2. <<x>> \in Given(f)
    BY <1>4 DEF Given, Lists
  <2>3. <<z>> # NIL /\ <<x>> # NIL
    BY <2>1, <2>2, NilDistinct DEF Fields, ImageFields, Lists
  <2>4. Answered(f, c) = <<z>> /\ Refreshed(f, c) = <<z>>
    BY <1>4, <2>3, ConvertedList
       DEF Answered, Refreshed, cpuConfigurationsFromSDK, StringSlice, Lists
  <2> HIDE DEF z
  <2>5. Marshalled(f, <<z>>) = <<z>> /\ Marshalled(f, s) \in {s, NIL}
    BY ConvertedList DEF Marshalled, Lists
  <2>6. t = <<z>>
    <3>1. CASE Marshalled(f, s) = <<z>>
      BY <2>3, <2>4, <2>5, <3>1 DEF Stored
    <3>2. CASE Marshalled(f, s) # <<z>>
      BY <2>4, <2>5, <3>2 DEF Stored, Lists
    <3>3. QED
      BY <3>1, <3>2
  <2> HIDE DEF t
  <2>7. Follows(f, s, t)
    <3>1. CASE s = NIL
      BY <3>1 DEF Follows, LeftToAWS
    <3>2. CASE s # NIL /\ f = "cpuConfigurations" /\ x = Empty
      <4>1. z = NIL
        BY <3>2 DEF z, enumFromSDK
      <4>2. y = NIL => s = t
        BY <1>4, <2>6, <3>2, <4>1
      <4>3. y # NIL => s = <<Empty>> /\ t = <<NIL>>
        BY <1>4, <2>6, <3>2, <4>1, NilDistinct
      <4>4. QED
        BY <3>2, <4>2, <4>3 DEF Follows
    <3>3. CASE s # NIL /\ ~(f = "cpuConfigurations" /\ x = Empty)
      <4>1. z = x
        BY <3>3 DEF z, enumFromSDK
      <4>2. y = x
        BY <1>4, <3>3, NilDistinct
      <4>3. s = t
        BY <1>4, <2>6, <3>3, <4>1, <4>2
      <4>4. QED
        BY <4>3 DEF Follows
    <3>4. QED
      BY <1>4, <3>1, <3>2, <3>3
  <2>8. ~Differ(f, t, Refreshed(f, c))
    BY <2>4, <2>6 DEF Differ, Lists
  <2>9. QED
    BY <2>1, <2>3, <2>6, <2>7, <2>8 DEF SpecValues
<1>5. CASE f = "cpuConfigurations"
  BY <1>2, <1>3, <1>4, <1>5 DEF Carries
<1>6. CASE f = "resources"
  BY <1>3, <1>4, <1>6, NumbersFit DEF Carries
<1>7. CASE f = "egressNetworkConnectors"
  BY <1>3, <1>4, <1>7 DEF Carries
<1>8. QED
  BY <1>5, <1>6, <1>7 DEF Lists

\* Away from lists and logging the merge patch carries every value.
LEMMA StoredVerbatim ==
    ASSUME NEW f \in Fields, f \notin Lists, f # "logging", NEW s, NEW v
    PROVE  Stored(f, s, v) = v
<1>1. Marshalled(f, s) = s /\ Marshalled(f, v) = v
  BY DEF Marshalled
<1>2. QED
  BY <1>1 DEF Stored

\* The SDK form of hooks is a structure.
LEMMA HooksSent ==
    ASSUME NEW s \in Given("hooks")
    PROVE  [state |-> enumToSDK(s.state), timeout |-> s.timeout] # NIL
<1>1. s \in [state: Texts \cup {NIL, Empty}, timeout: Numbers \cup {NIL}]
  BY DEF Given
<1>2. enumToSDK(s.state) \in Texts \cup {NIL, Empty}
  BY <1>1 DEF enumToSDK
<1>3. [state |-> enumToSDK(s.state), timeout |-> s.timeout] \in Given("hooks")
  BY <1>1, <1>2 DEF Given
<1>4. QED
  BY <1>3, NilDistinct DEF Fields, ImageFields

LEMMA HooksSettle ==
    ASSUME NEW s \in SpecValues("hooks"), NEW c, Carries("hooks", s, c)
    PROVE  LET t == Stored("hooks", s, Answered("hooks", c))
           IN /\ t \in SpecValues("hooks") /\ ~Differ("hooks", t, Refreshed("hooks", c))
              /\ Follows("hooks", s, t)
<1> DEFINE t == Answered("hooks", c)
<1>1. Stored("hooks", s, t) = t
  BY StoredVerbatim DEF Fields, ImageFields, Lists
<1>2. CASE c = NIL
  <2>1. t = NIL /\ Refreshed("hooks", c) = NIL
    BY <1>2 DEF Answered, Refreshed, hooksFromSDK
  <2>2. LeftToAWS("hooks", s)
    <3>1. \/ s = NIL
          \/ s \in Given("hooks") /\ s.state \in {NIL, Empty} /\ s.timeout = NIL
      BY <1>2, HooksSent DEF Carries
    <3>2. QED
      BY <3>1 DEF LeftToAWS
  <2> HIDE DEF t
  <2>3. QED
    BY <1>1, <2>1, <2>2, SameNeverDiffers, FollowsLeft DEF SpecValues, t
<1>3. CASE c # NIL
  <2> DEFINE e == IF s.state \in {NIL, Empty} THEN NIL ELSE s.state
             v == [state |-> e, timeout |-> s.timeout]
  <2>1. /\ s \in Given("hooks") /\ InInt32(s.timeout)
        /\ c = [state |-> enumToSDK(s.state), timeout |-> s.timeout]
    BY <1>3 DEF Carries
  <2>2. s \in [state: Texts \cup {NIL, Empty}, timeout: Numbers \cup {NIL}]
    BY <2>1 DEF Given
  <2>3. e \in Texts \cup {NIL, Empty}
    BY <2>2
  <2>4. enumFromSDK(c.state) = e
    BY <2>1, <2>2, NilDistinct DEF enumFromSDK, enumToSDK
  <2>5. t = v /\ Refreshed("hooks", c) = v
    <3>1. t = [c EXCEPT !.state = enumFromSDK(@)]
      BY <1>3 DEF Answered
    <3>2. t = [state |-> enumFromSDK(c.state), timeout |-> c.timeout]
      BY <2>1, <3>1
    <3>3. Refreshed("hooks", c) = [state |-> enumFromSDK(c.state), timeout |-> c.timeout]
      BY <1>3 DEF Refreshed, hooksFromSDK
    <3>4. QED
      BY <2>1, <2>4, <3>2, <3>3
  <2>6. v \in SpecValues("hooks")
    BY <2>2, <2>3 DEF SpecValues, Given
  <2>7. Follows("hooks", s, v)
    <3>1. CASE s.state = Empty
      <4>1. v = [s EXCEPT !.state = NIL]
        BY <2>2, <3>1
      <4>2. QED
        BY <3>1, <4>1 DEF Follows
    <3>2. CASE s.state # Empty
      <4>1. v = s
        BY <2>2, <3>2
      <4>2. QED
        BY <4>1 DEF Follows
    <3>3. QED
      BY <3>1, <3>2
  <2>8. ~Differ("hooks", v, v)
    BY SameNeverDiffers
  <2> HIDE DEF v, t
  <2>9. QED
    BY <1>1, <2>5, <2>6, <2>7, <2>8 DEF t
<1>4. QED
  BY <1>2, <1>3

LEMMA LoggingSettles ==
    ASSUME NEW s \in SpecValues("logging"), NEW c, Carries("logging", s, c)
    PROVE  LET t == Stored("logging", s, Answered("logging", c))
           IN /\ t \in SpecValues("logging") /\ ~Differ("logging", t, Refreshed("logging", c))
              /\ Follows("logging", s, t)
<1> DEFINE v == loggingFromSDK(c)
           t == Stored("logging", s, v)
<1>1. Answered("logging", c) = v /\ Refreshed("logging", c) = v
  BY DEF Answered, Refreshed, Lists
<1>2. CASE s \in {NIL, NoLogging} /\ c = NIL
  <2>1. v = NIL
    BY <1>2 DEF loggingFromSDK
  <2>2. t = NIL
    <3>1. Marshalled("logging", NIL) = NIL
      BY DEF Marshalled, Lists
    <3>2. CASE s = NIL
      BY <2>1, <3>2 DEF Stored
    <3>3. CASE s = NoLogging /\ s # NIL
      <4>1. Marshalled("logging", s) = NoLogging
        BY <3>3 DEF Marshalled, Lists, NoLogging
      <4>2. QED
        BY <2>1, <3>1, <3>3, <4>1 DEF Stored
    <3>4. QED
      BY <1>2, <3>2, <3>3
  <2>3. LeftToAWS("logging", s)
    BY <1>2 DEF LeftToAWS, NoLogging
  <2> HIDE DEF t, v
  <2>4. Stored("logging", s, Answered("logging", c)) = t
    BY <1>1 DEF t
  <2>5. QED
    BY <1>1, <2>1, <2>2, <2>3, <2>4, SameNeverDiffers, FollowsLeft DEF SpecValues
<1>3. CASE s = v
  <2>1. t = s
    BY <1>3 DEF Stored
  <2> HIDE DEF t, v
  <2>2. Stored("logging", s, Answered("logging", c)) = t
    BY <1>1 DEF t
  <2>3. QED
    BY <1>1, <1>3, <2>1, <2>2, SameNeverDiffers, FollowsSelf
<1>4. CASE s = Disabled /\ c = [member |-> "disabled", group |-> NIL]
  <2>1. c # NIL
    <3>1. c \in Members
      BY <1>4 DEF Members
    <3>2. QED
      BY <3>1, NilDistinct
  <2>2. v = s
    BY <1>4, <2>1 DEF loggingFromSDK, Disabled
  <2>3. QED
    BY <1>3, <2>2
<1>5. ASSUME NEW g \in Texts, s = [cloudWatch |-> g, disabled |-> FALSE],
             c = [member |-> "cloudWatch", group |-> g]
      PROVE  s = v
  <2>1. c # NIL
    <3>1. c \in Members
      BY <1>5 DEF Members
    <3>2. QED
      BY <3>1, NilDistinct
  <2>2. QED
    BY <1>5, <2>1 DEF loggingFromSDK
<1>6. QED
  <2>1. \/ s \in {NIL, NoLogging} /\ c = NIL
        \/ s = Disabled /\ c = [member |-> "disabled", group |-> NIL]
        \/ \E g \in Texts :
                 /\ s = [cloudWatch |-> g, disabled |-> FALSE]
                 /\ c = [member |-> "cloudWatch", group |-> g]
    BY DEF Carries
  <2>2. QED
    BY <1>2, <1>3, <1>4, <1>5, <2>1

LEMMA VersionConverted ==
    ASSUME NEW c \in [minor: Minors, patch: Patches]
    PROVE  LET v == [minor |-> c.minor, patch |-> NIL]
           IN /\ Refreshed("baseImageVersion", c) = v
              /\ Answered("baseImageVersion", c) = v
              /\ v \in Given("baseImageVersion") /\ v # NIL
<1> DEFINE v == [minor |-> c.minor, patch |-> NIL]
<1>1. c \in Given("baseImageVersion") /\ v \in Given("baseImageVersion")
  BY DEF Given
<1>2. c # NIL /\ v # NIL
  BY <1>1, NilDistinct DEF Fields, ImageFields
<1>3. sanitizeBaseImageVersion(c) = v
  BY <1>2 DEF sanitizeBaseImageVersion
<1>4. QED
  BY <1>1, <1>2, <1>3 DEF Refreshed, Answered, Lists

\* After an answer the CR has a value of the field that does not differ from what
\* AWS has, and that is the user's.
LEMMA Settled ==
    ASSUME NEW f \in Fields, NEW s \in SpecValues(f), NEW c, Carries(f, s, c)
    PROVE  LET t == Stored(f, s, Answered(f, c))
           IN /\ t \in SpecValues(f) /\ ~Differ(f, t, Refreshed(f, c))
              /\ Follows(f, s, t)
              /\ f \in Lists /\ s # NIL => t # NIL
<1> DEFINE t == Stored(f, s, Answered(f, c))
<1>1. CASE f \in Lists
  BY <1>1, ListSettles
<1>2. CASE f = "hooks"
  BY <1>2, HooksSettle DEF Lists
<1>3. CASE f = "logging"
  BY <1>3, LoggingSettles DEF Lists
<1>4. CASE f \notin Lists /\ f # "logging" /\ f # "hooks"
  <2>1. t = Answered(f, c)
    BY <1>4, StoredVerbatim
  <2> HIDE DEF t
  <2>2. CASE f = "description"
    <3>1. t = s /\ Refreshed(f, c) = s
      BY <2>1, <2>2 DEF Carries, Answered, Refreshed, Lists
    <3>2. QED
      BY <1>4, <3>1, SameNeverDiffers, FollowsSelf DEF t
  <2>3. CASE f = "baseImageVersion"
    <3>1. c \in [minor: Minors, patch: Patches] /\ s \in {NIL, [minor |-> c.minor, patch |-> NIL]}
      BY <2>3 DEF Carries
    <3> DEFINE v == [minor |-> c.minor, patch |-> NIL]
    <3>2. t = v /\ Refreshed(f, c) = v /\ v \in SpecValues(f)
      BY <2>1, <2>3, <3>1, VersionConverted DEF SpecValues
    <3>3. s \in {NIL, v}
      BY <3>1
    <3> HIDE DEF v
    <3>4. s = NIL => LeftToAWS(f, s)
      BY DEF LeftToAWS
    <3>5. Follows(f, s, t)
      BY <3>2, <3>3, <3>4, FollowsLeft, FollowsSelf
    <3>6. QED
      BY <1>4, <3>2, <3>5, SameNeverDiffers DEF t
  <2>4. CASE f = "maximumDurationInSeconds"
    <3>1. t = c /\ Refreshed(f, c) = c
      BY <2>1, <2>4 DEF Answered, Refreshed, Lists
    <3>2. c \in SpecValues(f)
      BY <2>4, NumbersFit DEF Carries, SpecValues, Given
    <3>3. s = c \/ s = NIL
      BY <2>4 DEF Carries
    <3>4. s = NIL => LeftToAWS(f, s)
      BY DEF LeftToAWS
    <3>5. Follows(f, s, t)
      BY <3>1, <3>3, <3>4, FollowsLeft, FollowsSelf
    <3>6. QED
      BY <1>4, <3>1, <3>2, <3>5, SameNeverDiffers DEF t
  <2>5. QED
    BY <1>4, <2>2, <2>3, <2>4 DEF Fields, ImageFields, MicrovmFields, Lists
<1>5. QED
  BY <1>1, <1>2, <1>3, <1>4

\* Hooks without their empty state.
LEMMA HooksFollow ==
    ASSUME NEW a \in SpecValues("hooks"), ~LeftToAWS("hooks", a), a.state = Empty
    PROVE  LET s == [a EXCEPT !.state = NIL]
           IN s.state = NIL /\ s.timeout = a.timeout /\ s # NIL /\ ~LeftToAWS("hooks", s)
<1> DEFINE s == [a EXCEPT !.state = NIL]
<1>1. a \in [state: Texts \cup {NIL, Empty}, timeout: Numbers \cup {NIL}]
  BY DEF SpecValues, Given, LeftToAWS
<1>2. s.state = NIL /\ s.timeout = a.timeout /\ s \in Given("hooks")
  BY <1>1 DEF Given
<1>3. s # NIL
  BY <1>2, NilDistinct DEF Fields, ImageFields
<1>4. a.timeout # NIL
  BY DEF LeftToAWS
<1> HIDE DEF s
<1>5. ~LeftToAWS("hooks", s)
  BY <1>2, <1>3, <1>4 DEF LeftToAWS
<1>6. QED
  BY <1>2, <1>3, <1>5 DEF s

LEMMA SingletonsDiffer ==
    <<NIL>> # <<Empty>> /\ <<NIL>> # NIL
<1>1. <<NIL>> \in Given("cpuConfigurations")
  BY DEF Given
<1>2. <<NIL>>[1] # <<Empty>>[1]
  BY NilDistinct
<1>3. QED
  BY <1>1, <1>2, NilDistinct DEF Fields, ImageFields

LEMMA FollowsTransitive ==
    ASSUME NEW f \in Fields, NEW a \in SpecValues(f), NEW s, NEW t,
           Follows(f, a, s), Follows(f, s, t)
    PROVE  Follows(f, a, t)
<1>1. CASE LeftToAWS(f, a)
  BY <1>1, FollowsLeft
<1>2. CASE s = a
  BY <1>2
<1>3. CASE f = "cpuConfigurations" /\ a = <<Empty>> /\ s = <<NIL>>
  <2>1. ~LeftToAWS(f, s)
    BY <1>3, SingletonsDiffer DEF LeftToAWS
  <2>2. s = t
    BY <1>3, <2>1, SingletonsDiffer DEF Follows
  <2>3. QED
    BY <2>2
<1>4. CASE f = "hooks" /\ a.state = Empty /\ s = [a EXCEPT !.state = NIL] /\ ~LeftToAWS(f, a)
  <2>1. s.state = NIL /\ ~LeftToAWS(f, s)
    BY <1>4, HooksFollow
  <2>2. s = t
    BY <1>4, <2>1, NilDistinct DEF Follows
  <2>3. QED
    BY <2>2
<1>5. QED
  BY <1>1, <1>2, <1>3, <1>4 DEF Follows

-----------------------------------------------------------------------------
(* A spec that does not differ from what AWS reports.                      *)

\* AWS reports only what came from some request.
Reported(f, c) == \E r \in SpecValues(f) : Carries(f, r, c)

\* c and the form it has in the CR.
LEMMA ListReported ==
    ASSUME NEW f \in Lists, NEW c, Reported(f, c)
    PROVE  \/ c \in {NIL, <<>>} /\ Refreshed(f, c) \in {NIL, <<>>}
           \/ \E x : /\ c = <<x>> /\ c # NIL
                     /\ Refreshed(f, c) \in Given(f) /\ Refreshed(f, c) # NIL
                     /\ Refreshed(f, c) = <<IF f = "cpuConfigurations" THEN enumFromSDK(x) ELSE x>>
                     /\ f = "cpuConfigurations" => x \in Texts \cup {Empty}
                     /\ f = "egressNetworkConnectors" => x \in Texts
<1>1. PICK r \in SpecValues(f) : Carries(f, r, c)
  BY DEF Reported
<1>2. CASE c \in {NIL, <<>>}
  BY <1>2 DEF Refreshed, cpuConfigurationsFromSDK, StringSlice, Lists
<1>3. ASSUME NEW x, c = <<x>>, c \in Given(f)
      PROVE  /\ c # NIL
             /\ Refreshed(f, c) \in Given(f) /\ Refreshed(f, c) # NIL
             /\ Refreshed(f, c) = <<IF f = "cpuConfigurations" THEN enumFromSDK(x) ELSE x>>
  <2>1. c # NIL
    BY <1>3, NilDistinct DEF Fields, ImageFields, Lists
  <2>2. Refreshed(f, c) = <<IF f = "cpuConfigurations" THEN enumFromSDK(x) ELSE x>>
    BY <1>3, <2>1, ConvertedList DEF Refreshed, cpuConfigurationsFromSDK, StringSlice, Lists
  <2>3. Refreshed(f, c) \in Given(f)
    <3>1. CASE f = "cpuConfigurations"
      <4>1. x \in Texts \cup {NIL, Empty}
        <5>1. \E y \in Texts \cup {NIL, Empty} : <<x>> = <<y>>
          BY <1>3, <3>1, ConvertedList DEF Given
        <5>2. QED
          BY <5>1
      <4>2. QED
        BY <2>2, <3>1, <4>1 DEF Given, enumFromSDK
    <3>2. CASE f # "cpuConfigurations"
      BY <1>3, <2>2, <3>2
    <3>3. QED
      BY <3>1, <3>2
  <2>4. QED
    BY <2>1, <2>2, <2>3, NilDistinct DEF Fields, ImageFields, Lists
<1>4. CASE f = "cpuConfigurations" /\ c \notin {NIL, <<>>}
  <2>1. PICK x \in Texts \cup {Empty} : c = <<x>>
    BY <1>1, <1>4 DEF Carries
  <2>2. c \in Given(f)
    BY <1>4, <2>1 DEF Given
  <2>3. QED
    BY <1>3, <1>4, <2>1, <2>2
<1>5. CASE f = "resources" /\ c \notin {NIL, <<>>}
  <2>1. PICK x \in Numbers \cup {NIL} : c = <<x>>
    BY <1>1, <1>5, NumbersFit DEF Carries
  <2>2. c \in Given(f)
    BY <1>5, <2>1 DEF Given
  <2>3. QED
    BY <1>3, <1>5, <2>1, <2>2
<1>6. CASE f = "egressNetworkConnectors" /\ c \notin {NIL, <<>>}
  <2>1. PICK x \in Texts : c = <<x>>
    BY <1>1, <1>6 DEF Carries
  <2>2. c \in Given(f)
    BY <1>6, <2>1 DEF Given
  <2>3. QED
    BY <1>3, <1>6, <2>1, <2>2
<1>7. QED
  BY <1>2, <1>4, <1>5, <1>6 DEF Lists

LEMMA HooksReported ==
    ASSUME NEW c, Reported("hooks", c), c # NIL
    PROVE  \E e \in Texts \cup {Empty}, n \in Numbers \cup {NIL} :
             /\ c = [state |-> e, timeout |-> n]
             /\ InInt32(n)
             /\ Refreshed("hooks", c) = [state |-> enumFromSDK(e), timeout |-> n]
<1>1. PICK r \in SpecValues("hooks") : Carries("hooks", r, c)
  BY DEF Reported
<1>2. /\ r \in Given("hooks") /\ InInt32(r.timeout)
      /\ c = [state |-> enumToSDK(r.state), timeout |-> r.timeout]
  BY <1>1 DEF Carries
<1>3. r.state \in Texts \cup {NIL, Empty} /\ r.timeout \in Numbers \cup {NIL}
  BY <1>2 DEF Given
<1>4. enumToSDK(r.state) \in Texts \cup {Empty}
  BY <1>3 DEF enumToSDK
<1>5. Refreshed("hooks", c) = [state |-> enumFromSDK(c.state), timeout |-> c.timeout]
  BY DEF Refreshed, hooksFromSDK
<1>6. QED
  BY <1>2, <1>3, <1>4, <1>5

LEMMA LoggingReported ==
    ASSUME NEW c, Reported("logging", c)
    PROVE  \/ c = NIL /\ Refreshed("logging", c) = NIL
           \/ /\ c = [member |-> "disabled", group |-> NIL] /\ c # NIL
              /\ Refreshed("logging", c) = Disabled
           \/ \E g \in Texts :
                /\ c = [member |-> "cloudWatch", group |-> g] /\ c # NIL
                /\ Refreshed("logging", c) = [cloudWatch |-> g, disabled |-> FALSE]
<1>1. PICK r \in SpecValues("logging") : Carries("logging", r, c)
  BY DEF Reported
<1>2. \/ c = NIL
      \/ c = [member |-> "disabled", group |-> NIL]
      \/ \E g \in Texts : c = [member |-> "cloudWatch", group |-> g]
  BY <1>1 DEF Carries
<1>3. Refreshed("logging", c) = loggingFromSDK(c)
  BY DEF Refreshed, Lists
<1>4. CASE c = NIL
  BY <1>3, <1>4 DEF loggingFromSDK
<1>5. CASE c = [member |-> "disabled", group |-> NIL]
  <2>1. c \in Members /\ c.member = "disabled"
    BY <1>5 DEF Members
  <2>2. c # NIL
    BY <2>1, NilDistinct
  <2>3. QED
    BY <1>3, <1>5, <2>1, <2>2 DEF loggingFromSDK, Disabled
<1>6. ASSUME NEW g \in Texts, c = [member |-> "cloudWatch", group |-> g]
      PROVE  c # NIL /\ Refreshed("logging", c) = [cloudWatch |-> g, disabled |-> FALSE]
  <2>1. c \in Members /\ c.member = "cloudWatch" /\ c.group = g
    BY <1>6 DEF Members
  <2>2. c # NIL
    BY <2>1, NilDistinct
  <2>3. QED
    BY <1>3, <2>1, <2>2 DEF loggingFromSDK
<1>7. QED
  BY <1>2, <1>4, <1>5, <1>6

\* Two pointers that do not differ point to the same.
LEMMA SamePointers ==
    ASSUME NEW a, NEW b, ~PointersDiffer(a, b)
    PROVE  a = b
BY DEF PointersDiffer, HasNilDifference

LEMMA ListAgrees ==
    ASSUME NEW f \in Lists, NEW s \in SpecValues(f), NEW c, Reported(f, c),
           s # NIL, ~Differ(f, s, Refreshed(f, c))
    PROVE  \/ s = <<>> /\ c \in {NIL, <<>>}
           \/ \E x : /\ c = <<x>> /\ c # NIL
                     /\ s = <<IF f = "cpuConfigurations" THEN enumFromSDK(x) ELSE x>>
                     /\ f = "cpuConfigurations" => x \in Texts \cup {Empty}
                     /\ f = "egressNetworkConnectors" => x \in Texts
<1> DEFINE d == Refreshed(f, c)
<1>1. Size(s) = Size(d) /\ (Size(s) > 0 => s = d)
  BY DEF Differ, Lists
<1>2. s = <<>> \/ \E y : s = <<y>>
  BY DEF SpecValues, Given, Lists
<1>3. Size(<<>>) = 0 /\ Size(NIL) = 0
  BY NilDistinct DEF Size
<1> HIDE DEF d
<1>4. CASE s = <<>>
  <2>1. ASSUME NEW x, d = <<x>>, d # NIL
        PROVE  FALSE
    <3>1. Size(d) = 1
      BY <2>1 DEF Size
    <3>2. QED
      BY <1>1, <1>3, <1>4, <3>1
  <2>2. c \in {NIL, <<>>}
    BY <2>1, ListReported DEF d
  <2>3. QED
    BY <1>4, <2>2
<1>5. ASSUME NEW y, s = <<y>>
      PROVE  /\ d = s
             /\ d \notin {NIL, <<>>}
  <2>1. Size(s) = 1
    BY <1>5 DEF Size
  <2>2. QED
    BY <1>1, <1>3, <1>5, <2>1
<1>6. QED
  BY <1>2, <1>4, <1>5, ListReported DEF d

LEMMA HooksAgree ==
    ASSUME NEW s \in SpecValues("hooks"), NEW c, Reported("hooks", c),
           s # NIL, ~Differ("hooks", s, Refreshed("hooks", c))
    PROVE  /\ c # NIL
           /\ \E e \in Texts \cup {Empty}, n \in Numbers \cup {NIL} :
                /\ c = [state |-> e, timeout |-> n]
                /\ InInt32(n)
                /\ s = [state |-> enumFromSDK(e), timeout |-> n]
<1> DEFINE d == Refreshed("hooks", c)
<1>1. /\ ~HasNilDifference(s, d)
      /\ NIL \notin {s, d} => ~PointersDiffer(s.state, d.state)
                              /\ ~PointersDiffer(s.timeout, d.timeout)
  BY DEF Differ, Lists
<1>2. s \in [state: Texts \cup {NIL, Empty}, timeout: Numbers \cup {NIL}]
  BY DEF SpecValues, Given
<1>3. d # NIL
  BY <1>1 DEF HasNilDifference
<1>4. c # NIL
  BY <1>3 DEF Refreshed, hooksFromSDK
<1>5. PICK e \in Texts \cup {Empty}, n \in Numbers \cup {NIL} :
             /\ c = [state |-> e, timeout |-> n]
             /\ InInt32(n)
             /\ d = [state |-> enumFromSDK(e), timeout |-> n]
  BY <1>4, HooksReported
<1> HIDE DEF d
<1>6. s.state = d.state /\ s.timeout = d.timeout
  BY <1>1, <1>3, SamePointers
<1>7. s = [state |-> enumFromSDK(e), timeout |-> n]
  BY <1>2, <1>5, <1>6
<1>8. QED
  BY <1>4, <1>5, <1>7

LEMMA LoggingAgrees ==
    ASSUME NEW s \in SpecValues("logging"), NEW c, Reported("logging", c),
           s # NIL, ~Differ("logging", s, Refreshed("logging", c))
    PROVE  /\ c # NIL
           /\ \/ s = Disabled /\ c = [member |-> "disabled", group |-> NIL]
              \/ \E g \in Texts :
                   /\ s = [cloudWatch |-> g, disabled |-> FALSE]
                   /\ c = [member |-> "cloudWatch", group |-> g]
<1> DEFINE d == Refreshed("logging", c)
<1>1. /\ ~HasNilDifference(s, d)
      /\ NIL \notin {s, d} => /\ ~PointersDiffer(s.cloudWatch, d.cloudWatch)
                              /\ s.disabled = d.disabled
  BY DEF Differ, Lists
<1>2. s \in [cloudWatch: Texts \cup {NIL}, disabled: BOOLEAN]
  BY DEF SpecValues, Given
<1>3. d # NIL
  BY <1>1 DEF HasNilDifference
<1>4. \/ /\ c = [member |-> "disabled", group |-> NIL] /\ c # NIL
         /\ d = Disabled
      \/ \E g \in Texts :
           /\ c = [member |-> "cloudWatch", group |-> g] /\ c # NIL
           /\ d = [cloudWatch |-> g, disabled |-> FALSE]
  BY <1>3, LoggingReported
<1> HIDE DEF d
<1>5. s.cloudWatch = d.cloudWatch /\ s.disabled = d.disabled
  BY <1>1, <1>3, SamePointers
<1>6. CASE c = [member |-> "disabled", group |-> NIL] /\ c # NIL /\ d = Disabled
  <2>1. s = Disabled
    BY <1>2, <1>5, <1>6 DEF Disabled
  <2>2. QED
    BY <1>6, <2>1
<1>7. ASSUME NEW g \in Texts, c = [member |-> "cloudWatch", group |-> g], c # NIL,
             d = [cloudWatch |-> g, disabled |-> FALSE]
      PROVE  s = [cloudWatch |-> g, disabled |-> FALSE]
  BY <1>2, <1>5, <1>7
<1>8. QED
  BY <1>4, <1>6, <1>7

\* The fields whose form in the CR is one value.
LEMMA PlainAgrees ==
    ASSUME NEW f \in {"description", "baseImageVersion", "maximumDurationInSeconds"},
           NEW s \in SpecValues(f), NEW c, Reported(f, c), ~Differ(f, s, Refreshed(f, c))
    PROVE  /\ s = Refreshed(f, c)
           /\ f = "baseImageVersion" => /\ c \in [minor: Minors, patch: Patches]
                                        /\ s = [minor |-> c.minor, patch |-> NIL]
           /\ f # "baseImageVersion" => s = c
<1>1. s = Refreshed(f, c)
  BY SamePointers DEF Differ, Lists
<1>2. CASE f = "baseImageVersion"
  <2>1. c \in [minor: Minors, patch: Patches]
    BY <1>2 DEF Reported, Carries
  <2>2. QED
    BY <1>1, <1>2, <2>1, VersionConverted
<1>3. CASE f # "baseImageVersion"
  BY <1>1, <1>3 DEF Refreshed, Lists
<1>4. QED
  BY <1>1, <1>2, <1>3

\* A spec that does not differ from AWS is honoured there.
LEMMA AgreedHonoured ==
    ASSUME NEW f \in Fields, NEW s \in SpecValues(f), NEW c, Reported(f, c),
           ~Differ(f, s, Refreshed(f, c))
    PROVE  Honours(f, s, c)
<1>1. CASE LeftToAWS(f, s)
  BY <1>1 DEF Honours
<1>2. CASE f \in Lists /\ s # NIL
  <2>1. CASE s = <<>> /\ c \in {NIL, <<>>}
    <3>1. Size(s) = 0 /\ Size(c) = 0
      BY <2>1 DEF Size
    <3>2. QED
      BY <1>2, <3>1 DEF Honours
  <2>2. ASSUME NEW x, c = <<x>>, c # NIL,
               s = <<IF f = "cpuConfigurations" THEN enumFromSDK(x) ELSE x>>
        PROVE  Honours(f, s, c)
    <3>1. Size(s) = 1 /\ Size(c) = 1
      BY <1>2, <2>2 DEF Size
    <3>2. s[1] \in {NIL, Empty} \/ c[1] = s[1]
      BY <2>2 DEF enumFromSDK
    <3>3. \A i \in 1..Size(s) : s[i] \in {NIL, Empty} \/ c[i] = s[i]
      BY <3>1, <3>2
    <3>4. QED
      BY <1>2, <3>1, <3>3 DEF Honours
  <2>3. QED
    BY <1>2, <2>1, <2>2, ListAgrees
<1>3. CASE f = "hooks" /\ s # NIL
  <2>1. PICK e, n : /\ c # NIL
                    /\ c = [state |-> e, timeout |-> n]
                    /\ s = [state |-> enumFromSDK(e), timeout |-> n]
    BY <1>3, HooksAgree
  <2>2. s.state \in {NIL, Empty} \/ c.state = s.state
    BY <2>1 DEF enumFromSDK
  <2>3. c.timeout = s.timeout
    BY <2>1
  <2>4. QED
    BY <1>3, <2>1, <2>2, <2>3 DEF Honours
<1>4. CASE f = "logging" /\ s # NIL
  <2>1. c # NIL
    BY <1>4, LoggingAgrees
  <2>2. /\ c = IF s.disabled THEN [member |-> "disabled", group |-> NIL]
                             ELSE [member |-> "cloudWatch", group |-> s.cloudWatch]
        /\ s.disabled => s.cloudWatch = NIL
    BY <1>4, LoggingAgrees DEF Disabled
  <2>3. QED
    BY <1>4, <2>1, <2>2 DEF Honours
<1>5. CASE f = "baseImageVersion"
  <2>1. s = [minor |-> c.minor, patch |-> NIL]
    BY <1>5, PlainAgrees
  <2>2. s.patch = NIL /\ c.minor = s.minor
    BY <2>1
  <2>3. QED
    BY <1>5, <2>2 DEF Honours
<1>6. CASE f \in {"description", "maximumDurationInSeconds"}
  BY <1>6, PlainAgrees DEF Honours
<1>7. QED
  BY <1>1, <1>2, <1>3, <1>4, <1>5, <1>6 DEF LeftToAWS, Fields, ImageFields, MicrovmFields, Lists

\* What is done for a spec is done for the user's value it follows.
LEMMA FollowedHonoured ==
    ASSUME NEW f \in Fields, NEW a \in SpecValues(f), NEW s, NEW c,
           Follows(f, a, s), Honours(f, s, c)
    PROVE  Honours(f, a, c)
<1>1. CASE LeftToAWS(f, a)
  BY <1>1 DEF Honours
<1>2. CASE s = a
  BY <1>2
<1>3. CASE f = "cpuConfigurations" /\ a = <<Empty>> /\ s = <<NIL>>
  <2>1. ~LeftToAWS(f, s) /\ a # NIL
    BY <1>3, SingletonsDiffer, ConvertedList, NilDistinct
       DEF LeftToAWS, Fields, ImageFields, Given
  <2>2. Size(c) = Size(s)
    BY <1>3, <2>1 DEF Honours, Lists
  <2>3. Size(s) = 1 /\ Size(a) = 1
    BY <1>3, <2>1, SingletonsDiffer DEF Size
  <2>4. \A i \in 1..Size(a) : a[i] = Empty
    BY <1>3, <2>3
  <2>5. QED
    BY <1>3, <2>2, <2>3, <2>4 DEF Honours, Lists
<1>4. CASE f = "hooks" /\ a.state = Empty /\ s = [a EXCEPT !.state = NIL] /\ ~LeftToAWS(f, a)
  <2>1. s.timeout = a.timeout /\ ~LeftToAWS(f, s)
    BY <1>4, HooksFollow
  <2>2. c # NIL /\ (s.timeout = NIL \/ c.timeout = s.timeout)
    BY <1>4, <2>1 DEF Honours, Lists
  <2>3. QED
    BY <1>4, <2>1, <2>2 DEF Honours
<1>5. QED
  BY <1>1, <1>2, <1>3, <1>4 DEF Follows

\* What a spec that does not differ from AWS is sent as, is not rejected.
LEMMA AgreedAccepted ==
    ASSUME NEW f \in ImageFields, NEW s \in SpecValues(f), NEW c, Reported(f, c),
           ~Differ(f, s, Refreshed(f, c))
    PROVE  PayloadError(f, s) # "terminal" /\ Accepts(f, Request(f, s))
<1>1. PayloadError(f, s) # "terminal"
  <2>1. CASE s = NIL
    BY <2>1 DEF PayloadError
  <2>2. CASE s # NIL /\ f = "logging"
    <3>1. s.cloudWatch = NIL \/ ~s.disabled
      BY <2>2, LoggingAgrees DEF Disabled
    <3>2. QED
      BY <2>2, <3>1 DEF PayloadError
  <2>3. CASE s # NIL /\ f # "logging"
    <3>1. f # "maximumDurationInSeconds"
      BY DEF ImageFields
    <3>2. QED
      BY <2>3, <3>1 DEF PayloadError
  <2>4. QED
    BY <2>1, <2>2, <2>3
<1>2. CASE f = "baseImageVersion"
  <2>1. s = [minor |-> c.minor, patch |-> NIL]
    BY <1>2, PlainAgrees
  <2>2. s.patch = NIL
    BY <2>1
  <2>3. Request(f, s) \in {NIL, s}
    BY <1>2 DEF Request
  <2>4. QED
    BY <1>1, <2>2, <2>3 DEF Accepts
<1>3. CASE f # "baseImageVersion"
  BY <1>1, <1>3 DEF Accepts
<1>4. QED
  BY <1>2, <1>3

\* The forms of logging in a CR are structures.
LEMMA LoggingGiven ==
    /\ NoLogging \in Given("logging") /\ NoLogging # NIL
    /\ Disabled \in Given("logging") /\ Disabled # NIL /\ Disabled # NoLogging
    /\ \A g \in Texts : LET v == [cloudWatch |-> g, disabled |-> FALSE]
                        IN v \in Given("logging") /\ v # NIL /\ v # Disabled /\ v # NoLogging
<1>1. /\ Given("logging") = [cloudWatch: Texts \cup {NIL}, disabled: BOOLEAN]
      /\ NIL \notin Given("logging")
  BY NilDistinct DEF Given, Fields, ImageFields
<1>2. NoLogging \in Given("logging") /\ Disabled \in Given("logging")
  BY <1>1 DEF NoLogging, Disabled
<1>3. Disabled.disabled /\ ~NoLogging.disabled /\ NoLogging.cloudWatch = NIL
  BY DEF NoLogging, Disabled
<1>4. ASSUME NEW g \in Texts
      PROVE  LET v == [cloudWatch |-> g, disabled |-> FALSE]
             IN v \in Given("logging") /\ v # NIL /\ v # Disabled /\ v # NoLogging
  <2> DEFINE v == [cloudWatch |-> g, disabled |-> FALSE]
  <2>1. v \in Given("logging") /\ ~v.disabled /\ v.cloudWatch = g
    BY <1>1
  <2>2. g # NIL
    BY NilDistinct
  <2> HIDE DEF v
  <2>3. v # NIL /\ v # Disabled /\ v # NoLogging
    BY <1>1, <1>3, <2>1, <2>2
  <2>4. QED
    BY <2>1, <2>3 DEF v
<1>5. QED
  BY <1>1, <1>2, <1>3, <1>4

LEMMA ListKept ==
    ASSUME NEW f \in Lists, NEW s \in SpecValues(f), NEW c, NEW d, Reported(f, c),
           ~Differ(f, s, Refreshed(f, c)), Carries(f, s, d),
           f # "cpuConfigurations" => s # NIL
    PROVE  Meaning(f, d) = Meaning(f, c)
<1>1. CASE s = NIL
  <2>1. d = NIL
    BY <1>1, NilDistinct, SingletonsDiffer DEF Carries, Lists
  <2>2. Size(Refreshed(f, c)) = 0
    BY <1>1 DEF Differ, Size, Lists
  <2>3. ASSUME NEW x, Refreshed(f, c) = <<x>>, Refreshed(f, c) # NIL
        PROVE  FALSE
    <3>1. Size(Refreshed(f, c)) = 1
      BY <2>3 DEF Size
    <3>2. QED
      BY <2>2, <3>1
  <2>4. c \in {NIL, <<>>}
    BY <2>3, ListReported
  <2>5. QED
    BY <2>1, <2>4, NilDistinct DEF Meaning, Lists
<1>2. CASE s = <<>> /\ c \in {NIL, <<>>}
  <2>1. d \in {NIL, <<>>}
    BY <1>2, NilDistinct DEF Carries, Lists
  <2>2. QED
    BY <1>2, <2>1 DEF Meaning, Lists
<1>3. ASSUME NEW x, c = <<x>>, s # NIL,
             s = <<IF f = "cpuConfigurations" THEN enumFromSDK(x) ELSE x>>,
             f = "cpuConfigurations" => x \in Texts \cup {Empty}
      PROVE  c = d
  <2>1. CASE f = "cpuConfigurations" /\ x = Empty
    <3>1. s = <<NIL>>
      BY <1>3, <2>1 DEF enumFromSDK
    <3>2. ASSUME NEW y \in Texts
          PROVE  s # <<y>>
      <4>1. <<y>>[1] # <<NIL>>[1]
        BY NilDistinct
      <4>2. QED
        BY <3>1, <4>1
    <3>3. s # <<>>
      BY <3>1
    <3>4. d = <<Empty>>
      BY <1>3, <2>1, <3>2, <3>3 DEF Carries
    <3>5. QED
      BY <1>3, <2>1, <3>4
  <2>2. CASE f = "cpuConfigurations" /\ x # Empty
    <3>1. s = <<x>> /\ x \in Texts
      BY <1>3, <2>2 DEF enumFromSDK
    <3>2. <<x>>[1] # <<NIL>>[1] /\ <<x>>[1] # <<Empty>>[1]
      BY <3>1, NilDistinct
    <3>3. s \notin {<<NIL>>, <<Empty>>, <<>>}
      BY <3>1, <3>2
    <3>4. QED
      BY <1>3, <2>2, <3>1, <3>3 DEF Carries
  <2>3. CASE f # "cpuConfigurations"
    <3>1. s = <<x>> /\ s # <<>>
      BY <1>3, <2>3
    <3>2. d = s
      BY <1>3, <2>3, <3>1 DEF Carries, Lists
    <3>3. QED
      BY <1>3, <3>1, <3>2
  <2>4. QED
    BY <2>1, <2>2, <2>3
<1>4. QED
  BY <1>1, <1>2, <1>3, ListAgrees

LEMMA HooksKept ==
    ASSUME NEW s \in SpecValues("hooks"), NEW c, NEW d, Reported("hooks", c),
           ~Differ("hooks", s, Refreshed("hooks", c)), Carries("hooks", s, d)
    PROVE  Meaning("hooks", d) = Meaning("hooks", c)
<1>1. CASE s = NIL
  <2>1. d = NIL
    BY <1>1, NilDistinct DEF Carries, Fields, ImageFields
  <2>2. Refreshed("hooks", c) = NIL
    BY <1>1 DEF Differ, HasNilDifference, Lists
  <2>3. ASSUME NEW e \in Texts \cup {Empty}, NEW n \in Numbers \cup {NIL}
        PROVE  [state |-> enumFromSDK(e), timeout |-> n] # NIL
    <3>1. enumFromSDK(e) \in Texts \cup {NIL, Empty}
      BY DEF enumFromSDK
    <3>2. [state |-> enumFromSDK(e), timeout |-> n] \in Given("hooks")
      BY <3>1 DEF Given
    <3>3. QED
      BY <3>2, NilDistinct DEF Fields, ImageFields
  <2>4. c = NIL
    BY <2>2, <2>3, HooksReported
  <2>5. QED
    BY <2>1, <2>4
<1>2. CASE s # NIL
  <2>1. PICK e \in Texts \cup {Empty}, n \in Numbers \cup {NIL} :
           /\ c = [state |-> e, timeout |-> n]
           /\ s = [state |-> enumFromSDK(e), timeout |-> n]
    BY <1>2, HooksAgree
  <2>2. c # NIL
    BY <1>2, HooksAgree
  <2>3. enumToSDK(enumFromSDK(e)) = e
    BY NilDistinct DEF enumToSDK, enumFromSDK
  <2>4. s.state = enumFromSDK(e) /\ s.timeout = n
    BY <2>1
  <2>5. CASE d = [state |-> enumToSDK(s.state), timeout |-> s.timeout]
    BY <2>1, <2>3, <2>4, <2>5
  <2>6. CASE s.state \in {NIL, Empty} /\ s.timeout = NIL /\ d = NIL
    <3>1. e = Empty /\ n = NIL
      BY <2>4, <2>6, NilDistinct DEF enumFromSDK
    <3>2. c = NoHooks
      BY <2>1, <3>1 DEF NoHooks
    <3>3. QED
      BY <2>2, <2>6, <3>2 DEF Meaning, Lists
  <2>7. QED
    BY <1>2, <2>5, <2>6 DEF Carries
<1>3. QED
  BY <1>1, <1>2

LEMMA LoggingKept ==
    ASSUME NEW s \in SpecValues("logging"), NEW c, NEW d, Reported("logging", c),
           ~Differ("logging", s, Refreshed("logging", c)), Carries("logging", s, d)
    PROVE  d = c
<1>1. CASE s = NIL
  <2>1. ASSUME NEW g \in Texts
        PROVE  [cloudWatch |-> g, disabled |-> FALSE] # NIL
    BY LoggingGiven
  <2>2. d = NIL
    BY <1>1, <2>1, LoggingGiven DEF Carries
  <2>3. Refreshed("logging", c) = NIL
    BY <1>1 DEF Differ, HasNilDifference, Lists
  <2>4. c = NIL
    BY <2>1, <2>3, LoggingReported, LoggingGiven
  <2>5. QED
    BY <2>2, <2>4
<1>2. CASE s = Disabled /\ c = [member |-> "disabled", group |-> NIL]
  <2>1. ASSUME NEW g \in Texts
        PROVE  s # [cloudWatch |-> g, disabled |-> FALSE]
    BY <1>2, LoggingGiven
  <2>2. s \notin {NIL, NoLogging}
    BY <1>2, LoggingGiven
  <2>3. QED
    BY <1>2, <2>1, <2>2 DEF Carries
<1>3. ASSUME NEW g \in Texts, s = [cloudWatch |-> g, disabled |-> FALSE],
             c = [member |-> "cloudWatch", group |-> g]
      PROVE  d = c
  <2>1. s.cloudWatch = g
    BY <1>3
  <2>2. s # Disabled /\ s # NIL
    BY <1>3, LoggingGiven
  <2>3. s # NoLogging
    BY <1>3, LoggingGiven
  <2>4. PICK h \in Texts : /\ s = [cloudWatch |-> h, disabled |-> FALSE]
                           /\ d = [member |-> "cloudWatch", group |-> h]
    BY <2>2, <2>3 DEF Carries
  <2>5. h = g
    BY <2>1, <2>4
  <2>6. QED
    BY <1>3, <2>4, <2>5
<1>4. QED
  BY <1>1, <1>2, <1>3, LoggingAgrees

\* A request for a spec that does not differ from AWS changes nothing there.
LEMMA AgreedKept ==
    ASSUME NEW f \in ImageFields, NEW s \in SpecValues(f), NEW c, NEW d, Reported(f, c),
           ~Differ(f, s, Refreshed(f, c)), Carries(f, s, d),
           f \in {"resources", "egressNetworkConnectors"} => s # NIL
    PROVE  Meaning(f, d) = Meaning(f, c)
<1>1. CASE f \in Lists
  BY <1>1, ListKept DEF Lists
<1>2. CASE f = "hooks"
  BY <1>2, HooksKept
<1>3. CASE f = "logging"
  BY <1>3, LoggingKept
<1>4. CASE f = "baseImageVersion"
  <2>1. /\ s = [minor |-> c.minor, patch |-> NIL]
        /\ c \in [minor: Minors, patch: Patches]
    BY <1>4, PlainAgrees
  <2>2. s # NIL
    BY <2>1, VersionConverted
  <2>3. s = [minor |-> d.minor, patch |-> NIL]
    BY <1>4, <2>2 DEF Carries
  <2>4. s.minor = c.minor /\ s.minor = d.minor
    <3>1. s.minor = c.minor
      BY <2>1
    <3>2. s.minor = d.minor
      BY <2>3
    <3>3. QED
      BY <3>1, <3>2
  <2>5. QED
    BY <1>4, <2>4 DEF Meaning, Lists
<1>5. CASE f = "description"
  BY <1>5, PlainAgrees DEF Carries
<1>6. QED
  BY <1>1, <1>2, <1>3, <1>4, <1>5 DEF ImageFields, Lists

-----------------------------------------------------------------------------
(* Adoption, and what other tools leave in AWS.                            *)

LEMMA ReportableReported ==
    ASSUME NEW f \in Fields, NEW c \in Reportable(f)
    PROVE  Reported(f, c)
<1>1. PICK s \in SpecValues(f) : Sends(f, s, c)
  BY DEF Reportable, Sends
<1>2. QED
  BY <1>1, Carried DEF Reported

\* The patch that fills an empty field stores an empty list, and empty logging, as
\* nothing and an empty structure.
LEMMA Filled ==
    ASSUME NEW f \in ImageFields, NEW c, Reported(f, c),
           IsEmpty(f, c) => f \in AdoptsEmpty
    PROVE  LET t == Stored(f, NIL, Refreshed(f, c))
           IN /\ t \in SpecValues(f)
              /\ Differ(f, t, Refreshed(f, c)) => f = "logging" /\ "logging" \in AdoptsEmpty
              /\ f \in Lists \ AdoptsEmpty => t # NIL
<1> DEFINE d == Refreshed(f, c)
           t == Stored(f, NIL, d)
<1>1. Marshalled(f, NIL) = NIL
  BY NilDistinct DEF Marshalled, Lists
<1>2. CASE f \in Lists
  <2>1. CASE c \in {NIL, <<>>} /\ d \in {NIL, <<>>}
    <3>1. f \in AdoptsEmpty
      BY <1>2, <2>1, NilDistinct DEF IsEmpty, Size
    <3>2. Marshalled(f, d) = NIL
      BY <1>2, <2>1 DEF Marshalled, Lists
    <3> HIDE DEF d
    <3>3. t = NIL
      BY <1>1, <3>2 DEF Stored
    <3>4. Size(NIL) = 0 /\ Size(d) = 0
      BY <2>1, NilDistinct DEF Size
    <3> HIDE DEF t
    <3>5. ~Differ(f, t, d)
      BY <1>2, <3>3, <3>4 DEF Differ, Lists
    <3>6. QED
      BY <3>1, <3>3, <3>5 DEF SpecValues, t, d
  <2>2. ASSUME NEW x, d = <<x>>, d \in Given(f), d # NIL
        PROVE  t = d
    <3>1. d # <<>>
      BY <2>2
    <3> HIDE DEF d
    <3>2. Marshalled(f, d) = d
      BY <1>2, <3>1 DEF Marshalled, Lists
    <3>3. QED
      BY <1>1, <1>2, <2>2, <3>2 DEF Stored, Lists
  <2>3. CASE t = d /\ d \in Given(f) /\ d # NIL
    <3> HIDE DEF t, d
    <3>1. QED
      BY <2>3, SameNeverDiffers DEF SpecValues, t, d
  <2>4. QED
    BY <1>2, <2>1, <2>2, <2>3, ListReported
<1>3. CASE f = "logging"
  <2>1. CASE d = NIL
    <3>1. t = NIL
      BY <1>1, <2>1 DEF Stored
    <3> HIDE DEF t, d
    <3>2. QED
      BY <1>3, <2>1, <3>1, SameNeverDiffers DEF SpecValues, Lists, t, d
  <2>2. CASE c = [member |-> "disabled", group |-> NIL] /\ c # NIL /\ d = Disabled
    <3>1. "logging" \in AdoptsEmpty
      BY <1>3, <2>2 DEF IsEmpty
    <3> HIDE DEF d
    <3>2. Marshalled(f, d) = NoLogging
      BY <1>3, <2>2, LoggingGiven DEF Marshalled, Lists, Disabled, NoLogging
    <3>3. t = NoLogging
      BY <1>1, <3>2, LoggingGiven DEF Stored
    <3> HIDE DEF t
    <3>4. QED
      BY <1>3, <3>1, <3>3, LoggingGiven DEF SpecValues, Lists, t, d
  <2>3. ASSUME NEW g \in Texts, d = [cloudWatch |-> g, disabled |-> FALSE]
        PROVE  t = d /\ d \in SpecValues(f)
    <3>1. d \in Given(f) /\ d # NIL
      BY <1>3, <2>3, LoggingGiven
    <3> HIDE DEF d
    <3>2. [d EXCEPT !.disabled = FALSE] = d
      <4>1. d \in [cloudWatch: Texts, disabled: {FALSE}] /\ d.disabled = FALSE
        BY <2>3
      <4>2. QED
        BY <4>1
    <3>3. Marshalled(f, d) = d
      BY <1>3, <3>1, <3>2 DEF Marshalled, Lists
    <3>4. t = d
      BY <1>1, <3>1, <3>3 DEF Stored
    <3>5. QED
      BY <3>1, <3>4 DEF SpecValues
  <2>4. CASE t = d /\ d \in SpecValues(f)
    <3> HIDE DEF t, d
    <3>1. QED
      BY <1>3, <2>4, SameNeverDiffers DEF Lists, t, d
  <2>5. QED
    BY <1>3, <2>1, <2>2, <2>3, <2>4, LoggingReported
<1>4. CASE f \notin Lists /\ f # "logging"
  <2>1. t = d
    BY <1>4, StoredVerbatim DEF Fields
  <2>2. d \in SpecValues(f)
    <3>1. CASE f = "description"
      BY <3>1 DEF Reported, Carries, Refreshed, SpecValues, Given, Lists
    <3>2. CASE f = "baseImageVersion"
      <4>1. c \in [minor: Minors, patch: Patches]
        BY <3>2 DEF Reported, Carries
      <4>2. QED
        BY <3>2, <4>1, VersionConverted DEF SpecValues
    <3>3. CASE f = "hooks" /\ c = NIL
      BY <3>3 DEF Refreshed, hooksFromSDK, SpecValues
    <3>4. CASE f = "hooks" /\ c # NIL
      <4>1. PICK e \in Texts \cup {Empty}, n \in Numbers \cup {NIL} :
               d = [state |-> enumFromSDK(e), timeout |-> n]
        BY <3>4, HooksReported
      <4>2. enumFromSDK(e) \in Texts \cup {NIL, Empty}
        BY DEF enumFromSDK
      <4>3. QED
        BY <3>4, <4>1, <4>2 DEF SpecValues, Given
    <3>5. QED
      BY <1>4, <3>1, <3>2, <3>3, <3>4 DEF ImageFields, Lists
  <2> HIDE DEF t, d
  <2>3. QED
    BY <1>4, <2>1, <2>2, SameNeverDiffers DEF t, d
<1>5. QED
  BY <1>2, <1>3, <1>4

-----------------------------------------------------------------------------
(* The inductive invariant.                                                *)

\* The CR and AWS hold values of the field, and the CR what the user wrote or what
\* the answers made of it.
ValueInv ==
    /\ field \in Fields
    /\ spec \in SpecValues(field) /\ asked \in SpecValues(field)
    /\ cloud # None => Reported(field, cloud)
    /\ Follows(field, asked, spec)
    /\ adopted => LeftToAWS(field, asked)

\* A reconciliation that ends well leaves no difference, but for the logging of an
\* adopted image.
SettledInv ==
    status = "ok" =>
        /\ Reported(field, cloud)
        /\ Differ(field, spec, Refreshed(field, cloud)) =>
               adopted /\ field = "logging" /\ "logging" \in AdoptsEmpty

Ones(p) == IF p THEN 1 ELSE 0

\* A difference is worth one rebuild.
DriftInv ==
    /\ causes \in Nat /\ rebuilds \in Nat
    /\ "logging" \notin AdoptsEmpty => rebuilds + Ones(Drifted) <= causes

\* What AWS gives a default is set in an adopted CR.
AdoptInv ==
    adopted /\ field \in {"resources", "egressNetworkConnectors"} \ AdoptsEmpty => spec # NIL

IInv == ValueInv /\ SettledInv /\ DriftInv /\ AdoptInv

LEMMA OnesRange == ASSUME NEW p \in BOOLEAN
                   PROVE  /\ Ones(p) \in {0, 1}
                          /\ p => Ones(p) = 1
                          /\ ~p => Ones(p) = 0
BY DEF Ones

\* An accepted request settles the field, or its answer is lost.
LEMMA SentSettles ==
    ASSUME ValueInv, Sent
    PROVE  /\ Reported(field, cloud') /\ Carries(field, spec, cloud')
           /\ spec' \in SpecValues(field) /\ Follows(field, asked, spec')
           /\ field \in Lists /\ spec # NIL => spec' # NIL
           /\ \/ status' = "ok" /\ ~Differ(field, spec', Refreshed(field, cloud'))
                 /\ causes' = causes
              \/ status' = "retry" /\ spec' = spec /\ causes' = causes + 1
<1>1. field \in Fields /\ spec \in SpecValues(field) /\ asked \in SpecValues(field)
      /\ Follows(field, asked, spec)
  BY DEF ValueInv
<1>2. Carries(field, spec, cloud')
  <2>1. Sends(field, spec, cloud')
    BY DEF Sent, Sends
  <2>2. QED
    BY <1>1, <2>1, Carried
<1>3. Reported(field, cloud')
  BY <1>1, <1>2 DEF Reported
<1>4. CASE spec' = Stored(field, spec, Answered(field, cloud')) /\ status' = "ok"
           /\ causes' = causes
  <2>1. /\ spec' \in SpecValues(field) /\ ~Differ(field, spec', Refreshed(field, cloud'))
        /\ Follows(field, spec, spec')
        /\ field \in Lists /\ spec # NIL => spec' # NIL
    BY <1>1, <1>2, <1>4, Settled
  <2>2. Follows(field, asked, spec')
    BY <1>1, <2>1, FollowsTransitive
  <2>3. QED
    BY <1>2, <1>3, <1>4, <2>1, <2>2
<1>5. CASE spec' = spec /\ status' = "retry" /\ causes' = causes + 1
  BY <1>1, <1>2, <1>3, <1>5
<1>6. QED
  BY <1>4, <1>5 DEF Sent

LEMMA NotSentStatus ==
    ASSUME NotSent
    PROVE  status' \in {"retry", "terminal"} /\ spec' = spec /\ cloud' = cloud /\ causes' = causes
<1>1. PayloadError(field, spec) \in {"none", "retry", "terminal"}
  <2>1. CASE spec = NIL
    BY <2>1 DEF PayloadError
  <2>2. CASE spec # NIL
    BY <2>2, Zenon DEF PayloadError
  <2>3. QED
    BY <2>1, <2>2
<1>2. QED
  BY <1>1 DEF NotSent

\* A request that is not sent changes no value.
LEMMA NotSentInvariant ==
    ASSUME IInv, NotSent, UNCHANGED <<field, asked, adopted, rebuilds>>
    PROVE  IInv'
<1>1. status' # "ok" /\ spec' = spec /\ cloud' = cloud /\ causes' = causes
  BY NotSentStatus
<1>2. Drifted' = Drifted
  BY <1>1 DEF Drifted
<1>3. ValueInv' /\ AdoptInv' /\ SettledInv'
  BY <1>1 DEF IInv, ValueInv, AdoptInv, SettledInv
<1>4. DriftInv'
  BY <1>1, <1>2 DEF IInv, DriftInv
<1>5. QED
  BY <1>3, <1>4 DEF IInv

\* One that is sent settles all but the count.
LEMMA SentInvariant ==
    ASSUME IInv, Sent, UNCHANGED <<field, asked, adopted>>,
           rebuilds' = rebuilds \/ (Drifted /\ rebuilds' = rebuilds + 1)
    PROVE  IInv'
<1>1. /\ Reported(field, cloud') /\ spec' \in SpecValues(field) /\ Follows(field, asked, spec')
      /\ field \in Lists /\ spec # NIL => spec' # NIL
      /\ \/ status' = "ok" /\ ~Differ(field, spec', Refreshed(field, cloud'))
            /\ causes' = causes
         \/ status' = "retry" /\ spec' = spec /\ causes' = causes + 1
  BY SentSettles DEF IInv
<1>2. ValueInv'
  BY <1>1 DEF IInv, ValueInv
<1>3. SettledInv'
  BY <1>1 DEF SettledInv
<1>4. AdoptInv'
  BY <1>1 DEF IInv, AdoptInv, Lists
<1>5. DriftInv'
  <2>1. causes \in Nat /\ rebuilds \in Nat
        /\ ("logging" \notin AdoptsEmpty => rebuilds + Ones(Drifted) <= causes)
    BY DEF IInv, DriftInv
  <2>2. Drifted \in BOOLEAN /\ Drifted' \in BOOLEAN
    BY DEF Drifted
  <2>3. Ones(Drifted) \in {0, 1} /\ Ones(Drifted') \in {0, 1} /\ (Drifted => Ones(Drifted) = 1)
        /\ (~Drifted' => Ones(Drifted') = 0)
    BY <2>2, OnesRange
  <2>4. status' = "ok" => ~Drifted' /\ causes' = causes
    BY <1>1 DEF Drifted
  <2>5. status' # "ok" => causes' = causes + 1
    BY <1>1
  <2>6. rebuilds' \in Nat /\ causes' \in Nat
    BY <1>1, <2>1
  <2>7. "logging" \notin AdoptsEmpty => rebuilds' + Ones(Drifted') <= causes'
    <3>1. CASE status' = "ok"
      BY <2>1, <2>3, <2>4, <3>1
    <3>2. CASE status' # "ok"
      BY <2>1, <2>3, <2>5, <3>2
    <3>3. QED
      BY <3>1, <3>2
  <2>8. QED
    BY <2>6, <2>7 DEF DriftInv, Ones
<1>6. QED
  BY <1>2, <1>3, <1>4, <1>5 DEF IInv

LEMMA InitInvariant == Init => IInv
<1> SUFFICES ASSUME Init PROVE IInv
  OBVIOUS
<1>1. ValueInv
  BY FollowsSelf DEF Init, ValueInv, Fields
<1>2. SettledInv /\ AdoptInv
  BY DEF Init, SettledInv, AdoptInv
<1>3. DriftInv
  BY DEF Init, DriftInv, Drifted, Ones
<1>4. QED
  BY <1>1, <1>2, <1>3 DEF IInv

LEMMA CreateInvariant == IInv /\ Create => IInv'
BY NotSentInvariant, SentInvariant DEF Create

LEMMA RebuildInvariant == IInv /\ Rebuild => IInv'
<1> SUFFICES ASSUME IInv, Rebuild PROVE IInv'
  OBVIOUS
<1>1. CASE NotSent /\ UNCHANGED rebuilds
  BY <1>1, NotSentInvariant DEF Rebuild
<1>2. CASE Sent /\ rebuilds' = rebuilds + 1
  BY <1>2, SentInvariant DEF Rebuild
<1>3. QED
  BY <1>1, <1>2 DEF Rebuild

LEMMA RebuildOtherInvariant == IInv /\ RebuildOther => IInv'
BY NotSentInvariant, SentInvariant DEF RebuildOther

\* A field that the user left out, the first read may fill.
LEMMA FollowsNothing ==
    ASSUME NEW f \in Fields, NEW a \in SpecValues(f), Follows(f, a, NIL)
    PROVE  LeftToAWS(f, a)
<1>1. CASE a = NIL
  BY <1>1 DEF LeftToAWS
<1>2. CASE f = "hooks" /\ a.state = Empty /\ NIL = [a EXCEPT !.state = NIL] /\ ~LeftToAWS(f, a)
  BY <1>2, HooksFollow
<1>3. QED
  BY <1>1, <1>2, SingletonsDiffer DEF Follows

LEMMA AdoptInvariant == IInv /\ Adopt => IInv'
<1> SUFFICES ASSUME IInv, Adopt PROVE IInv'
  OBVIOUS
<1>1. field \in Fields /\ asked \in SpecValues(field) /\ Follows(field, asked, NIL)
      /\ field \in ImageFields
  BY DEF IInv, ValueInv, Adopt
<1>2. LeftToAWS(field, asked)
  BY <1>1, FollowsNothing
<1>3. Reported(field, cloud')
  BY <1>1, ReportableReported DEF Adopt
<1>4. /\ spec' \in SpecValues(field)
      /\ Differ(field, spec', Refreshed(field, cloud')) =>
             field = "logging" /\ "logging" \in AdoptsEmpty
      /\ field \in Lists \ AdoptsEmpty => spec' # NIL
  <2>1. IsEmpty(field, cloud') => field \in AdoptsEmpty
    BY DEF Adopt
  <2>2. spec' = Stored(field, NIL, Refreshed(field, cloud'))
    BY DEF Adopt
  <2>3. QED
    BY <1>1, <1>3, <2>1, <2>2, Filled
<1>5. ValueInv'
  BY <1>1, <1>2, <1>3, <1>4, FollowsLeft DEF Adopt, ValueInv
<1>6. SettledInv'
  BY <1>3, <1>4 DEF Adopt, SettledInv
<1>7. AdoptInv'
  BY <1>4 DEF Adopt, AdoptInv, Lists
<1>8. DriftInv'
  <2>1. "logging" \notin AdoptsEmpty => ~Drifted'
    BY <1>4 DEF Drifted, Adopt
  <2>2. Drifted \in BOOLEAN /\ Drifted' \in BOOLEAN
    BY DEF Drifted
  <2>3. Ones(Drifted) \in {0, 1} /\ (~Drifted' => Ones(Drifted') = 0)
    BY <2>2, OnesRange
  <2>4. causes \in Nat /\ rebuilds \in Nat /\ causes' = causes /\ rebuilds' = rebuilds
        /\ ("logging" \notin AdoptsEmpty => rebuilds + Ones(Drifted) <= causes)
    BY DEF IInv, DriftInv, Adopt
  <2>5. "logging" \notin AdoptsEmpty => rebuilds' + Ones(Drifted') <= causes'
    BY <2>1, <2>3, <2>4
  <2>6. QED
    BY <2>4, <2>5 DEF DriftInv, Ones
<1>9. QED
  BY <1>5, <1>6, <1>7, <1>8 DEF IInv

\* A change to the CR or behind the controller's back pays for its rebuild.
LEMMA ChangePays ==
    ASSUME DriftInv, causes' = causes + 1, rebuilds' = rebuilds
    PROVE  DriftInv'
<1>1. Drifted \in BOOLEAN /\ Drifted' \in BOOLEAN
  BY DEF Drifted
<1>2. Ones(Drifted) \in {0, 1} /\ Ones(Drifted') \in {0, 1}
  BY <1>1, OnesRange
<1>3. causes \in Nat /\ rebuilds \in Nat
      /\ ("logging" \notin AdoptsEmpty => rebuilds + Ones(Drifted) <= causes)
  BY DEF DriftInv
<1>4. "logging" \notin AdoptsEmpty => rebuilds' + Ones(Drifted') <= causes'
  BY <1>2, <1>3
<1>5. QED
  BY <1>3, <1>4 DEF DriftInv, Ones

LEMMA EditInvariant == IInv /\ Edit => IInv'
<1> SUFFICES ASSUME IInv, Edit PROVE IInv'
  OBVIOUS
<1>1. ValueInv'
  BY FollowsSelf DEF IInv, ValueInv, Edit
<1>2. SettledInv' /\ AdoptInv'
  BY DEF Edit, SettledInv, AdoptInv
<1>3. DriftInv'
  BY ChangePays DEF IInv, Edit
<1>4. QED
  BY <1>1, <1>2, <1>3 DEF IInv

LEMMA OutsideInvariant == IInv /\ Outside => IInv'
<1> SUFFICES ASSUME IInv, Outside PROVE IInv'
  OBVIOUS
<1>1. field \in Fields
  BY DEF IInv, ValueInv
<1>2. Reported(field, cloud')
  BY <1>1, ReportableReported DEF Outside
<1>3. ValueInv'
  BY <1>2 DEF IInv, ValueInv, Outside
<1>4. SettledInv' /\ AdoptInv'
  BY DEF IInv, Outside, SettledInv, AdoptInv
<1>5. DriftInv'
  BY ChangePays DEF IInv, Outside
<1>6. QED
  BY <1>3, <1>4, <1>5 DEF IInv

\* A step that leaves all values alone, and reports success only without a difference.
LEMMA ReportInvariant ==
    ASSUME IInv, UNCHANGED <<field, spec, asked, cloud, adopted, causes, rebuilds, others>>,
           status' = "ok" => status = "ok" \/ (cloud # None /\ ~Drifted)
    PROVE  IInv'
<1>1. ValueInv' /\ AdoptInv'
  BY DEF IInv, ValueInv, AdoptInv
<1>2. SettledInv'
  <2>1. status' = "ok" =>
           /\ Reported(field, cloud)
           /\ Differ(field, spec, Refreshed(field, cloud)) =>
                  adopted /\ field = "logging" /\ "logging" \in AdoptsEmpty
    BY DEF IInv, ValueInv, SettledInv, Drifted
  <2>2. QED
    BY <2>1 DEF SettledInv
<1>3. Drifted' = Drifted
  BY DEF Drifted
<1>4. DriftInv'
  BY <1>3 DEF IInv, DriftInv
<1>5. QED
  BY <1>1, <1>2, <1>4 DEF IInv

\* The values of the field in the CR and in AWS agree as far as they must, in every
\* reachable state.
THEOREM Invariance == Spec => []IInv
<1>1. IInv /\ [Next]_vars => IInv'
  <2> SUFFICES ASSUME IInv, [Next]_vars PROVE IInv'
    OBVIOUS
  <2>1. CASE Create
    BY <2>1, CreateInvariant
  <2>2. CASE Adopt
    BY <2>2, AdoptInvariant
  <2>3. CASE Agrees
    BY <2>3, ReportInvariant DEF Agrees
  <2>4. CASE Rebuild
    BY <2>4, RebuildInvariant
  <2>5. CASE NotImplemented
    BY <2>5, ReportInvariant DEF NotImplemented
  <2>6. CASE RebuildOther
    BY <2>6, RebuildOtherInvariant
  <2>7. CASE Edit
    BY <2>7, EditInvariant
  <2>8. CASE Outside
    BY <2>8, OutsideInvariant
  <2>9. CASE UNCHANGED vars
    BY <2>9, ReportInvariant DEF vars
  <2>10. QED
    BY <2>1, <2>2, <2>3, <2>4, <2>5, <2>6, <2>7, <2>8, <2>9 DEF Next
<1>2. QED
  BY <1>1, InitInvariant, PTL DEF Spec

-----------------------------------------------------------------------------
(* What the invariant is for.                                              *)

\* Honoured: a reconciliation that ends well leaves AWS with what the user wrote
\* last, through all conversions and answers in between (newUpdateRequestPayload,
\* refreshSpecFromActiveVersion).
THEOREM HonouredSafety == Spec => []Honoured
<1>1. IInv => Honoured
  <2> SUFFICES ASSUME IInv, status = "ok" PROVE Honours(field, asked, cloud)
    BY DEF Honoured
  <2>1. field \in Fields /\ spec \in SpecValues(field) /\ asked \in SpecValues(field)
        /\ Follows(field, asked, spec) /\ Reported(field, cloud)
    BY DEF IInv, ValueInv, SettledInv
  <2>2. CASE adopted
    BY <2>2 DEF IInv, ValueInv, Honours
  <2>3. CASE ~adopted
    <3>1. ~Differ(field, spec, Refreshed(field, cloud))
      BY <2>3 DEF IInv, SettledInv
    <3>2. Honours(field, spec, cloud)
      BY <2>1, <3>1, AgreedHonoured
    <3>3. QED
      BY <2>1, <3>2, FollowedHonoured
  <2>4. QED
    BY <2>2, <2>3
<1>2. QED
  BY <1>1, Invariance, PTL

\* NoPerpetualDrift: every rebuild has a cause, since the answers and the reads agree
\* on every value (hooks_test.go:94-100).  The empty map of an adopted image's
\* disabled logging would break it.
THEOREM DriftSafety == ASSUME "logging" \notin AdoptsEmpty PROVE Spec => []NoPerpetualDrift
<1>1. IInv => NoPerpetualDrift
  <2> SUFFICES ASSUME IInv PROVE rebuilds <= causes
    BY DEF NoPerpetualDrift
  <2>1. Drifted \in BOOLEAN
    BY DEF Drifted
  <2>2. Ones(Drifted) \in {0, 1}
    BY <2>1, OnesRange
  <2>3. rebuilds \in Nat /\ causes \in Nat /\ rebuilds + Ones(Drifted) <= causes
    BY DEF IInv, DriftInv
  <2>4. QED
    BY <2>2, <2>3
<1>2. QED
  BY <1>1, Invariance, PTL

\* RebuildKeepsField: a rebuild that another field causes carries this one along, as
\* AWS has it (hooks.go:90-98), unless an adopted image has no value of it that a CR
\* can hold.
THEOREM KeepSafety ==
    ASSUME {"resources", "egressNetworkConnectors", "logging"} \cap AdoptsEmpty = {}
    PROVE  Spec => RebuildKeepsField
<1>1. ASSUME IInv, RebuildOther, status = "ok", adopted \/ ~LeftToAWS(field, asked)
      PROVE  status' # "terminal" /\ Meaning(field, cloud') = Meaning(field, cloud)
  <2>1. /\ field \in ImageFields /\ spec \in SpecValues(field) /\ Reported(field, cloud)
        /\ ~Differ(field, spec, Refreshed(field, cloud))
    BY <1>1 DEF IInv, ValueInv, SettledInv, RebuildOther
  <2>2. PayloadError(field, spec) # "terminal" /\ Accepts(field, Request(field, spec))
    BY <2>1, AgreedAccepted
  <2>3. CASE NotSent
    BY <2>2, <2>3 DEF NotSent
  <2>4. CASE Sent
    <3>1. Carries(field, spec, cloud') /\ status' # "terminal"
      BY <1>1, <2>4, SentSettles DEF IInv
    <3>2. field \in {"resources", "egressNetworkConnectors"} => spec # NIL
      <4>1. CASE adopted
        BY <1>1, <4>1 DEF IInv, AdoptInv
      <4>2. CASE ~LeftToAWS(field, asked) /\ field \in {"resources", "egressNetworkConnectors"}
        <5>1. spec = asked
          BY <1>1, <4>2 DEF IInv, ValueInv, Follows
        <5>2. QED
          BY <4>2, <5>1 DEF LeftToAWS
      <4>3. QED
        BY <1>1, <4>1, <4>2
    <3>3. QED
      BY <2>1, <3>1, <3>2, AgreedKept
  <2>5. QED
    BY <1>1, <2>3, <2>4 DEF RebuildOther
<1>2. IInv => [RebuildOther /\ status = "ok" /\ (adopted \/ ~LeftToAWS(field, asked))
                => status' # "terminal" /\ Meaning(field, cloud') = Meaning(field, cloud)]_vars
  BY <1>1
<1>3. QED
  BY <1>2, Invariance, PTL DEF RebuildKeepsField

=============================================================================
