--------------------------- MODULE MessagesProofs ---------------------------
(***************************************************************************)
(* Proofs about Messages: what the parser accepts, what makes it end the   *)
(* process, and that it reads what the server writes. A document may have  *)
(* any fields with any values.                                             *)
(***************************************************************************)
EXTENDS Messages, NaturalsInduction, WellFoundedInduction, SequenceTheorems, TLAPS

-----------------------------------------------------------------------------
(* The first check that does not succeed.                                  *)

Verdicts == {"ok", "invalid", "throws"}

\* A set of natural numbers has a least one.
LEMMA LeastNumber ==
    ASSUME NEW S \in SUBSET Nat, S # {}
    PROVE  Min(S) \in S /\ \A k \in S : Min(S) <= k
<1>1. PICK m \in S : \A k \in S : <<k, m>> \notin OpToRel(<, Nat)
  BY NatLessThanWellFounded, WFMin
<1>2. ASSUME NEW k \in S PROVE m <= k
  <2>1. k \in Nat /\ m \in Nat
    OBVIOUS
  <2>2. ~(k < m)
    BY <1>1, <2>1 DEF OpToRel
  <2> QED
    BY <2>1, <2>2
<1> QED
  BY <1>2 DEF Min

LEMMA FirstFaultFound ==
    ASSUME NEW s \in Seq(Verdicts)
    PROVE  \/ FirstFault(s) = "ok" /\ \A k \in 1..Len(s) : s[k] = "ok"
           \/ /\ FirstFault(s) \in {"invalid", "throws"}
              /\ \E k \in 1..Len(s) : /\ s[k] = FirstFault(s)
                                      /\ \A i \in 1..(k - 1) : s[i] = "ok"
<1> DEFINE I == {k \in 1..Len(s) : s[k] # "ok"}
<1>1. FirstFault(s) = IF (IF I # {} THEN Min(I) ELSE 0) = 0 THEN "ok"
                      ELSE s[IF I # {} THEN Min(I) ELSE 0]
  BY DEF FirstFault, SelectInSeq
<1>2. CASE I = {}
  BY <1>1, <1>2
<1>3. CASE I # {}
  <2>1. Len(s) \in Nat /\ I \in SUBSET Nat /\ \A k \in 1..Len(s) : s[k] \in Verdicts
    OBVIOUS
  <2>2. Min(I) \in I /\ \A k \in I : Min(I) <= k
    BY <1>3, <2>1, LeastNumber
  <2>3. FirstFault(s) = s[Min(I)]
    BY <1>1, <1>3, <2>1, <2>2
  <2>4. \A i \in 1..(Min(I) - 1) : s[i] = "ok"
    BY <2>1, <2>2
  <2> QED
    BY <2>1, <2>2, <2>3, <2>4 DEF Verdicts
<1> QED
  BY <1>2, <1>3

\* What FirstFaultFound says of a sequence of n checks.
Decides(v, s, n) ==
    \/ v = "ok" /\ \A k \in 1..n : s[k] = "ok"
    \/ /\ v \in {"invalid", "throws"}
       /\ \E k \in 1..n : s[k] = v /\ \A i \in 1..(k - 1) : s[i] = "ok"

LEMMA OneDecision ==
    ASSUME NEW s, NEW n \in Nat, NEW v, NEW w, Decides(v, s, n), Decides(w, s, n)
    PROVE  v = w
<1>1. CASE v = "ok" \/ w = "ok"
  BY <1>1 DEF Decides
<1>2. CASE v # "ok" /\ w # "ok"
  <2>1. PICK k \in 1..n : s[k] = v /\ \A i \in 1..(k - 1) : s[i] = "ok"
    BY <1>2 DEF Decides
  <2>2. PICK l \in 1..n : s[l] = w /\ \A i \in 1..(l - 1) : s[i] = "ok"
    BY <1>2 DEF Decides
  <2>3. k \in Int /\ l \in Int /\ ~(k < l) /\ ~(l < k)
    <3>1. CASE k < l
      <4>1. k \in 1..(l - 1)
        BY <3>1
      <4> QED
        BY <1>2, <2>1, <2>2, <4>1
    <3>2. CASE l < k
      <4>1. l \in 1..(k - 1)
        BY <3>2
      <4> QED
        BY <1>2, <2>1, <2>2, <4>1
    <3> QED
      BY <3>1, <3>2
  <2> QED
    BY <2>1, <2>2, <2>3
<1> QED
  BY <1>1, <1>2

\* The checks of a message come one after the other.
LEMMA ChecksInOrder ==
    ASSUME NEW s \in Seq(Verdicts), NEW t \in Seq(Verdicts)
    PROVE  /\ s \o t \in Seq(Verdicts)
           /\ FirstFault(s \o t) = IF FirstFault(s) = "ok" THEN FirstFault(t) ELSE FirstFault(s)
<1> DEFINE u == s \o t
           v == FirstFault(s)
           w == FirstFault(t)
<1>1. PICK m \in Nat, n \in Nat : m = Len(s) /\ n = Len(t)
  OBVIOUS
<1>2. /\ u \in Seq(Verdicts) /\ Len(u) = m + n
      /\ \A k \in 1..m : u[k] = s[k]
      /\ \A k \in 1..n : u[m + k] = t[k]
  BY <1>1
<1>3. Decides(v, s, m) /\ Decides(w, t, n) /\ Decides(FirstFault(u), u, m + n)
  BY <1>1, <1>2, FirstFaultFound DEF Decides
<1> SUFFICES FirstFault(u) = IF v = "ok" THEN w ELSE v
  BY <1>2
<1> HIDE DEF u, v, w
<1>4. CASE v # "ok"
  <2>1. PICK k \in 1..m : s[k] = v /\ \A i \in 1..(k - 1) : s[i] = "ok"
    BY <1>3, <1>4 DEF Decides
  <2>2. ASSUME NEW i \in 1..(k - 1) PROVE u[i] = "ok"
    <3>1. i \in 1..m
      BY <1>1
    <3> QED
      BY <1>2, <2>1, <3>1
  <2>3. k \in 1..(m + n) /\ u[k] = v
    BY <1>2, <2>1
  <2>4. Decides(v, u, m + n)
    BY <1>3, <1>4, <2>2, <2>3 DEF Decides
  <2> QED
    BY <1>3, <1>4, <2>4, OneDecision
<1>5. CASE v = "ok"
  <2>1. \A i \in 1..m : u[i] = "ok"
    BY <1>2, <1>3, <1>5 DEF Decides
  <2>2. ASSUME NEW k \in 0..n, \A i \in 1..k : t[i] = "ok", NEW i \in 1..(m + k)
        PROVE  u[i] = "ok"
    <3>1. CASE i \in 1..m
      BY <2>1, <3>1
    <3>2. CASE i \notin 1..m
      <4>1. i - m \in 1..k /\ i - m \in 1..n /\ i = m + (i - m)
        BY <3>2
      <4> QED
        BY <1>2, <2>2, <4>1
    <3> QED
      BY <3>1, <3>2
  <2>3. CASE w = "ok"
    <3>1. n \in 0..n /\ \A i \in 1..n : t[i] = "ok"
      BY <1>3, <2>3 DEF Decides
    <3> QED
      BY <1>3, <1>5, <2>2, <2>3, <3>1, OneDecision DEF Decides
  <2>4. CASE w # "ok"
    <3>1. PICK k \in 1..n : t[k] = w /\ \A i \in 1..(k - 1) : t[i] = "ok"
      BY <1>3, <2>4 DEF Decides
    <3>2. k - 1 \in 0..n /\ m + k \in 1..(m + n) /\ u[m + k] = w
      BY <1>2, <3>1
    <3>3. \A i \in 1..(m + (k - 1)) : u[i] = "ok"
      BY <2>2, <3>1, <3>2
    <3>4. m + (k - 1) = (m + k) - 1
      OBVIOUS
    <3>5. Decides(w, u, m + n)
      BY <1>3, <2>4, <3>2, <3>3, <3>4 DEF Decides
    <3> QED
      BY <1>3, <1>5, <3>5, OneDecision
  <2> QED
    BY <2>3, <2>4
<1> QED
  BY <1>4, <1>5

LEMMA OneCheck ==
    ASSUME NEW v \in Verdicts
    PROVE  <<v>> \in Seq(Verdicts) /\ FirstFault(<<v>>) = v
<1> DEFINE s == <<v>>
<1>1. s \in Seq(Verdicts) /\ Len(s) = 1 /\ s[1] = v
  OBVIOUS
<1> HIDE DEF s
<1>2. FirstFault(s) = v
  BY <1>1, FirstFaultFound
<1> QED
  BY <1>1, <1>2 DEF s

LEMMA TwoChecks ==
    ASSUME NEW v \in Verdicts, NEW w \in Verdicts
    PROVE  /\ <<v, w>> \in Seq(Verdicts)
           /\ FirstFault(<<v, w>>) = IF v = "ok" THEN w ELSE v
<1> DEFINE s == <<v, w>>
<1>1. s \in Seq(Verdicts) /\ Len(s) = 2 /\ s[1] = v /\ s[2] = w
  OBVIOUS
<1> HIDE DEF s
<1>2. Decides(FirstFault(s), s, 2)
  BY <1>1, FirstFaultFound DEF Decides
<1>3. Decides(IF v = "ok" THEN w ELSE v, s, 2)
  BY <1>1 DEF Decides, Verdicts
<1> QED
  BY <1>1, <1>2, <1>3, OneDecision DEF s

LEMMA ThreeChecks ==
    ASSUME NEW v \in Verdicts, NEW w \in Verdicts, NEW x \in Verdicts
    PROVE  /\ <<v, w, x>> \in Seq(Verdicts)
           /\ FirstFault(<<v, w, x>>) = IF v # "ok" THEN v ELSE IF w # "ok" THEN w ELSE x
<1> DEFINE s == <<v, w, x>>
<1>1. s \in Seq(Verdicts) /\ Len(s) = 3 /\ s[1] = v /\ s[2] = w /\ s[3] = x
  OBVIOUS
<1> HIDE DEF s
<1>2. Decides(FirstFault(s), s, 3)
  BY <1>1, FirstFaultFound DEF Decides
<1>3. Decides(IF v # "ok" THEN v ELSE IF w # "ok" THEN w ELSE x, s, 3)
  BY <1>1 DEF Decides, Verdicts
<1> QED
  BY <1>1, <1>2, <1>3, OneDecision DEF s

LEMMA FourChecks ==
    ASSUME NEW v \in Verdicts, NEW w \in Verdicts, NEW x \in Verdicts, NEW y \in Verdicts
    PROVE  /\ <<v, w, x, y>> \in Seq(Verdicts)
           /\ FirstFault(<<v, w, x, y>>) =
                 IF v # "ok" THEN v ELSE IF w # "ok" THEN w ELSE IF x # "ok" THEN x ELSE y
<1> DEFINE s == <<v, w, x, y>>
<1>1. s \in Seq(Verdicts) /\ Len(s) = 4 /\ s[1] = v /\ s[2] = w /\ s[3] = x /\ s[4] = y
  OBVIOUS
<1> HIDE DEF s
<1>2. Decides(FirstFault(s), s, 4)
  BY <1>1, FirstFaultFound DEF Decides
<1>3. Decides(IF v # "ok" THEN v ELSE IF w # "ok" THEN w ELSE IF x # "ok" THEN x ELSE y, s, 4)
  BY <1>1 DEF Decides, Verdicts
<1> QED
  BY <1>1, <1>2, <1>3, OneDecision DEF s

\* A list of checks, one for each element of a list.
LEMMA ListOfChecks ==
    ASSUME NEW n \in Nat, NEW s \in [1..n -> Verdicts]
    PROVE  /\ s \in Seq(Verdicts)
           /\ \/ FirstFault(s) = "ok" /\ \A k \in 1..n : s[k] = "ok"
              \/ FirstFault(s) \in {"invalid", "throws"} /\ \E k \in 1..n : s[k] = FirstFault(s)
<1>1. s \in Seq(Verdicts) /\ Len(s) = n
  OBVIOUS
<1> QED
  BY <1>1, FirstFaultFound

-----------------------------------------------------------------------------
(* The checks of one field.                                                *)

LEMMA StringChecked ==
    ASSUME NEW j, NEW f
    PROVE  /\ StringField(j, f) \in Verdicts
           /\ StringField(j, f) = "ok" <=> Text(j, f)
           /\ StringField(j, f) = "invalid" => f \notin DOMAIN j \/ j[f] = ""
BY DEF StringField, Text, Verdicts

LEMMA TypedChecked ==
    ASSUME NEW j, NEW f
    PROVE  /\ TypedField(j, f) \in Verdicts
           /\ TypedField(j, f) = "ok" <=> f \in DOMAIN j /\ j[f] # Wrong
           /\ TypedField(j, f) = "invalid" => f \notin DOMAIN j
BY DEF TypedField, Verdicts

LEMMA NumberChecked ==
    ASSUME NEW j, NEW f, NEW allowed, Wrong \notin allowed
    PROVE  /\ NumberField(j, f, allowed) \in Verdicts
           /\ NumberField(j, f, allowed) = "ok" <=> f \in DOMAIN j /\ j[f] \in allowed
           /\ NumberField(j, f, allowed) = "invalid" =>
                 f \notin DOMAIN j \/ j[f] \notin allowed \union {Wrong}
BY DEF NumberField, Verdicts

\* What a list is, if it is one.
IsList(l) == Len(l) \in Nat /\ DOMAIN l = 1..Len(l)

\* Where there is no list of accounts, one is looked at that has nothing.
LEMMA NoListChecked ==
    ASSUME NEW j, "accounts" \notin DOMAIN j \/ j["accounts"] = Wrong
    PROVE  /\ DOMAIN ListField(j, "accounts") = 1..1
           /\ \A f : StringField(ListField(j, "accounts")[1], f) = "invalid"
<1>1. ListField(j, "accounts") = << <<>> >>
  BY DEF ListField
<1>2. DOMAIN << <<>> >> = 1..1 /\ << <<>> >>[1] = <<>> /\ DOMAIN <<>> = {}
  OBVIOUS
<1>3. ASSUME NEW f PROVE StringField(<<>>, f) = "invalid"
  BY <1>2 DEF StringField
<1> QED
  BY <1>1, <1>2, <1>3

\* A document may have any fields, but what it has for accounts is a list or none.
IsDocument(j) == "accounts" \in DOMAIN j /\ j["accounts"] # Wrong => IsList(j["accounts"])

HasList(j) == "accounts" \in DOMAIN j /\ j["accounts"] # Wrong

-----------------------------------------------------------------------------
(* The checks of each class.                                               *)

VersionRight(j) == "version" \in DOMAIN j /\ j["version"] \in 1..2
VersionWrong(j) == "version" \notin DOMAIN j \/ j["version"] \notin 1..2 \union {Wrong}
Empty(j, f) == f \notin DOMAIN j \/ j[f] = ""

LEMMA HeaderChecked ==
    ASSUME NEW j
    PROVE  /\ AbstractMessage(j) \in Seq(Verdicts) /\ FirstFault(AbstractMessage(j)) \in Verdicts
           /\ FirstFault(AbstractMessage(j)) = "ok" <=> VersionRight(j) /\ Text(j, "action")
           /\ FirstFault(AbstractMessage(j)) = "invalid" => VersionWrong(j) \/ Empty(j, "action")
<1> DEFINE v == NumberField(j, "version", 1..2)
           w == StringField(j, "action")
<1>1. /\ v \in Verdicts /\ (v = "ok" <=> VersionRight(j))
      /\ v = "invalid" => VersionWrong(j)
  BY NumberChecked, WrongAssumption DEF VersionRight, VersionWrong
<1>2. /\ w \in Verdicts /\ (w = "ok" <=> Text(j, "action"))
      /\ w = "invalid" => Empty(j, "action")
  BY StringChecked DEF Empty
<1>3. AbstractMessage(j) = <<v, w>>
  BY DEF AbstractMessage, VERSION
<1> HIDE DEF v, w
<1>4. /\ <<v, w>> \in Seq(Verdicts)
      /\ FirstFault(<<v, w>>) = IF v = "ok" THEN w ELSE v
  BY <1>1, <1>2, TwoChecks
<1> QED
  BY <1>1, <1>2, <1>3, <1>4

LEMMA SetChannelUriChecked ==
    ASSUME NEW j
    PROVE  LET v == from_json("SET_CHANNEL_URI", j)
           IN /\ v \in Verdicts
              /\ v = "ok" <=> /\ VersionRight(j) /\ Text(j, "action")
                              /\ Text(j, "channel_uri") /\ Text(j, "device_id")
              /\ v = "invalid" => \/ VersionWrong(j) \/ Empty(j, "action")
                                  \/ Empty(j, "channel_uri") \/ Empty(j, "device_id")
<1> DEFINE t == <<StringField(j, "channel_uri"), StringField(j, "device_id")>>
<1>1. /\ t \in Seq(Verdicts) /\ FirstFault(t) \in Verdicts
      /\ FirstFault(t) = "ok" <=> Text(j, "channel_uri") /\ Text(j, "device_id")
      /\ FirstFault(t) = "invalid" => Empty(j, "channel_uri") \/ Empty(j, "device_id")
  <2> DEFINE v == StringField(j, "channel_uri")
             w == StringField(j, "device_id")
  <2>1. /\ v \in Verdicts /\ (v = "ok" <=> Text(j, "channel_uri"))
        /\ v = "invalid" => Empty(j, "channel_uri")
    BY StringChecked DEF Empty
  <2>2. /\ w \in Verdicts /\ (w = "ok" <=> Text(j, "device_id"))
        /\ w = "invalid" => Empty(j, "device_id")
    BY StringChecked DEF Empty
  <2>3. t = <<v, w>>
    OBVIOUS
  <2> HIDE DEF v, w, t
  <2>4. /\ <<v, w>> \in Seq(Verdicts)
        /\ FirstFault(<<v, w>>) = IF v = "ok" THEN w ELSE v
    BY <2>1, <2>2, TwoChecks
  <2> QED
    BY <2>1, <2>2, <2>3, <2>4
<1>2. from_json("SET_CHANNEL_URI", j) = FirstFault(AbstractMessage(j) \o t)
  BY DEF from_json, SetChannelUriMessage
<1> HIDE DEF t
<1> QED
  BY <1>1, <1>2, HeaderChecked, ChecksInOrder

LEMMA RequestTestPushChecked ==
    ASSUME NEW j
    PROVE  LET v == from_json("REQUEST_TEST_PUSH", j)
           IN /\ v \in Verdicts
              /\ v = "ok" <=> VersionRight(j) /\ Text(j, "action") /\ Text(j, "device_id")
              /\ v = "invalid" => VersionWrong(j) \/ Empty(j, "action") \/ Empty(j, "device_id")
<1> DEFINE t == <<StringField(j, "device_id")>>
<1>1. /\ t \in Seq(Verdicts) /\ FirstFault(t) \in Verdicts
      /\ FirstFault(t) = "ok" <=> Text(j, "device_id")
      /\ FirstFault(t) = "invalid" => Empty(j, "device_id")
  BY StringChecked, OneCheck DEF Empty
<1>2. from_json("REQUEST_TEST_PUSH", j) = FirstFault(AbstractMessage(j) \o t)
  BY DEF from_json, RequestTestPushMessage
<1> HIDE DEF t
<1> QED
  BY <1>1, <1>2, HeaderChecked, ChecksInOrder

Listed(j, f) == HasList(j) /\ \A a \in ToSet(j["accounts"]) : Text(a, f)
Unlisted(j, fs) == ~HasList(j) \/ \E a \in ToSet(j["accounts"]) : \E f \in fs : Empty(a, f)

LEMMA SetPushAccountsChecked ==
    ASSUME NEW j, IsDocument(j)
    PROVE  LET v == from_json("SET_PUSH_ACCOUNT", j)
           IN /\ v \in Verdicts
              /\ v = "ok" <=> /\ VersionRight(j) /\ Text(j, "action")
                              /\ Listed(j, "account_id") /\ Text(j, "device_id")
              /\ v = "invalid" => \/ VersionWrong(j) \/ Empty(j, "action")
                                  \/ Unlisted(j, {"account_id"}) \/ Empty(j, "device_id")
<1> DEFINE l == ListField(j, "accounts")
           s == [k \in DOMAIN l |-> StringField(l[k], "account_id")]
           t == <<StringField(j, "device_id")>>
<1>1. /\ t \in Seq(Verdicts) /\ FirstFault(t) \in Verdicts
      /\ FirstFault(t) = "ok" <=> Text(j, "device_id")
      /\ FirstFault(t) = "invalid" => Empty(j, "device_id")
  BY StringChecked, OneCheck DEF Empty
<1>2. /\ s \in Seq(Verdicts) /\ FirstFault(s) \in Verdicts
      /\ FirstFault(s) = "ok" <=> Listed(j, "account_id")
      /\ FirstFault(s) = "invalid" => Unlisted(j, {"account_id"})
  <2>1. CASE HasList(j)
    <3>1. l = j["accounts"]
      BY <2>1 DEF ListField, HasList
    <3>2. PICK n \in Nat : DOMAIN l = 1..n
      BY <2>1, <3>1 DEF IsDocument, IsList, HasList
    <3>3. /\ s \in [1..n -> Verdicts]
          /\ \A k \in 1..n : /\ s[k] = "ok" <=> Text(l[k], "account_id")
                             /\ s[k] = "invalid" => Empty(l[k], "account_id")
      BY <3>2, StringChecked DEF Empty
    <3>4. ToSet(l) = {l[k] : k \in 1..n}
      BY <3>2 DEF ToSet
    <3> HIDE DEF s, l
    <3>5. /\ s \in Seq(Verdicts)
          /\ \/ FirstFault(s) = "ok" /\ \A k \in 1..n : s[k] = "ok"
             \/ FirstFault(s) \in {"invalid", "throws"} /\ \E k \in 1..n : s[k] = FirstFault(s)
      BY <3>3, ListOfChecks
    <3>6. FirstFault(s) = "ok" <=> \A k \in 1..n : s[k] = "ok"
      BY <3>5
    <3>7. FirstFault(s) = "ok" <=> \A k \in 1..n : Text(l[k], "account_id")
      BY <3>3, <3>6
    <3>8. FirstFault(s) = "invalid" => \E k \in 1..n : Empty(l[k], "account_id")
      BY <3>3, <3>5
    <3> QED
      BY <2>1, <3>1, <3>4, <3>5, <3>7, <3>8 DEF Listed, Unlisted, Verdicts
  <2>2. CASE ~HasList(j)
    <3>1. DOMAIN l = 1..1 /\ StringField(l[1], "account_id") = "invalid"
      BY <2>2, NoListChecked DEF HasList
    <3>2. s \in [1..1 -> Verdicts] /\ s[1] = "invalid"
      BY <3>1 DEF Verdicts
    <3> HIDE DEF s
    <3>3. /\ s \in Seq(Verdicts)
          /\ \/ FirstFault(s) = "ok" /\ \A k \in 1..1 : s[k] = "ok"
             \/ FirstFault(s) \in {"invalid", "throws"} /\ \E k \in 1..1 : s[k] = FirstFault(s)
      BY <3>2, ListOfChecks
    <3>4. FirstFault(s) = "invalid"
      BY <3>2, <3>3
    <3> QED
      BY <2>2, <3>3, <3>4 DEF Listed, Unlisted, Verdicts
  <2> QED
    BY <2>1, <2>2
<1>3. from_json("SET_PUSH_ACCOUNT", j) = FirstFault(AbstractMessage(j) \o s \o t)
  BY DEF from_json, SetPushAccountsMessage
<1> HIDE DEF s, t
<1>4. /\ AbstractMessage(j) \o s \in Seq(Verdicts)
      /\ FirstFault(AbstractMessage(j) \o s) =
            IF FirstFault(AbstractMessage(j)) = "ok" THEN FirstFault(s)
                                                    ELSE FirstFault(AbstractMessage(j))
  BY <1>2, HeaderChecked, ChecksInOrder
<1>5. FirstFault(AbstractMessage(j) \o s \o t) =
        IF FirstFault(AbstractMessage(j) \o s) = "ok" THEN FirstFault(t)
                                                      ELSE FirstFault(AbstractMessage(j) \o s)
  BY <1>1, <1>4, ChecksInOrder
<1> QED
  BY <1>1, <1>2, <1>3, <1>4, <1>5, HeaderChecked

StatusRight(j) == "status" \in DOMAIN j /\ j["status"] \in Int \ {-1}
StatusWrong(j) == "status" \notin DOMAIN j \/ j["status"] \notin (Int \ {-1}) \union {Wrong}

HeadRight(j) == VersionRight(j) /\ Text(j, "action") /\ StatusRight(j)
HeadWrong(j) == VersionWrong(j) \/ Empty(j, "action") \/ StatusWrong(j)

LEMMA ResponseHeadChecked ==
    ASSUME NEW j
    PROVE  /\ AbstractResponseMessage(j) \in Seq(Verdicts)
           /\ FirstFault(AbstractResponseMessage(j)) \in Verdicts
           /\ FirstFault(AbstractResponseMessage(j)) = "ok" <=> HeadRight(j)
           /\ FirstFault(AbstractResponseMessage(j)) = "invalid" => HeadWrong(j)
<1> DEFINE v == NumberField(j, "status", Int \ {-1})
           t == <<v>>
<1>1. /\ v \in Verdicts
      /\ v = "ok" <=> StatusRight(j)
      /\ v = "invalid" => StatusWrong(j)
  BY NumberChecked, WrongAssumption DEF StatusRight, StatusWrong
<1>2. AbstractResponseMessage(j) = AbstractMessage(j) \o t
  BY DEF AbstractResponseMessage
<1> HIDE DEF v
<1>3. t \in Seq(Verdicts) /\ FirstFault(t) = v
  BY <1>1, OneCheck
<1> HIDE DEF t
<1> QED
  BY <1>1, <1>2, <1>3, HeaderChecked, ChecksInOrder DEF HeadRight, HeadWrong

LEMMA ErrorResponseChecked ==
    ASSUME NEW j
    PROVE  LET v == from_json("ERROR_RESPONSE", j)
           IN /\ v \in Verdicts
              /\ v = "ok" <=> HeadRight(j) /\ "error" \in DOMAIN j /\ j["error"] # Wrong
              /\ v = "invalid" => HeadWrong(j) \/ "error" \notin DOMAIN j
<1> DEFINE v == TypedField(j, "error")
           t == <<v>>
<1>1. /\ v \in Verdicts
      /\ v = "ok" <=> "error" \in DOMAIN j /\ j["error"] # Wrong
      /\ v = "invalid" => "error" \notin DOMAIN j
  BY TypedChecked
<1>2. from_json("ERROR_RESPONSE", j) = FirstFault(AbstractResponseMessage(j) \o t)
  BY DEF from_json, ErrorResponseMessage
<1> HIDE DEF v
<1>3. t \in Seq(Verdicts) /\ FirstFault(t) = v
  BY <1>1, OneCheck
<1> HIDE DEF t
<1> QED
  BY <1>1, <1>2, <1>3, ResponseHeadChecked, ChecksInOrder

LEMMA SuccessResponseChecked ==
    ASSUME NEW j
    PROVE  LET v == from_json("SUCCESS_RESPONSE", j)
           IN /\ v \in Verdicts
              /\ v = "ok" <=> HeadRight(j)
              /\ v = "invalid" => HeadWrong(j)
BY ResponseHeadChecked DEF from_json, SuccessResponseMessage

\* What is right or wrong with an account of a response.
AccountRight(a) ==
    /\ Text(a, "account_id") /\ Text(a, "node") /\ Text(a, "secret")
    /\ "success" \in DOMAIN a /\ a["success"] # Wrong
AccountWrong(a) ==
    \/ Empty(a, "account_id") \/ Empty(a, "node") \/ Empty(a, "secret")
    \/ "success" \notin DOMAIN a

LEMMA AccountChecked ==
    ASSUME NEW a
    PROVE  /\ FirstFault(PushAccount(a)) \in Verdicts
           /\ FirstFault(PushAccount(a)) = "ok" <=> AccountRight(a)
           /\ FirstFault(PushAccount(a)) = "invalid" => AccountWrong(a)
<1> DEFINE v == StringField(a, "account_id")
           w == StringField(a, "node")
           x == StringField(a, "secret")
           y == TypedField(a, "success")
<1>1. /\ v \in Verdicts
      /\ v = "ok" <=> Text(a, "account_id")
      /\ v = "invalid" => Empty(a, "account_id")
  BY StringChecked DEF Empty
<1>2. /\ w \in Verdicts
      /\ w = "ok" <=> Text(a, "node")
      /\ w = "invalid" => Empty(a, "node")
  BY StringChecked DEF Empty
<1>3. /\ x \in Verdicts
      /\ x = "ok" <=> Text(a, "secret")
      /\ x = "invalid" => Empty(a, "secret")
  BY StringChecked DEF Empty
<1>4. /\ y \in Verdicts
      /\ y = "ok" <=> "success" \in DOMAIN a /\ a["success"] # Wrong
      /\ y = "invalid" => "success" \notin DOMAIN a
  BY TypedChecked
<1>5. PushAccount(a) = <<v, w, x, y>>
  BY DEF PushAccount
<1> HIDE DEF v, w, x, y
<1>6. FirstFault(<<v, w, x, y>>) =
        IF v # "ok" THEN v ELSE IF w # "ok" THEN w ELSE IF x # "ok" THEN x ELSE y
  BY <1>1, <1>2, <1>3, <1>4, FourChecks
<1> QED
  BY <1>1, <1>2, <1>3, <1>4, <1>5, <1>6 DEF AccountRight, AccountWrong

LEMMA SuccessSetPushAccountsChecked ==
    ASSUME NEW j, IsDocument(j), "accounts" \in DOMAIN j
    PROVE  LET v == from_json("SUCCESS_SET_PUSH_ACCOUNT", j)
           IN /\ v \in Verdicts
              /\ v = "ok" <=> /\ HeadRight(j) /\ HasList(j)
                              /\ \A a \in ToSet(j["accounts"]) : AccountRight(a)
                              /\ j["accounts"] # <<>> /\ Text(j, "push_bare_jid")
              /\ v = "invalid" => \/ HeadWrong(j) \/ ~HasList(j)
                                  \/ \E a \in ToSet(j["accounts"]) : AccountWrong(a)
                                  \/ j["accounts"] = <<>> \/ Empty(j, "push_bare_jid")
<1> DEFINE l == ListField(j, "accounts")
           s == [k \in DOMAIN l |-> FirstFault(PushAccount(l[k]))]
           v == IF "accounts" \in DOMAIN j /\ j["accounts"] = <<>> THEN "invalid" ELSE "ok"
           w == StringField(j, "push_bare_jid")
           t == <<v, w>>
<1>1. /\ t \in Seq(Verdicts) /\ FirstFault(t) \in Verdicts
      /\ FirstFault(t) = "ok" <=> j["accounts"] # <<>> /\ Text(j, "push_bare_jid")
      /\ FirstFault(t) = "invalid" => j["accounts"] = <<>> \/ Empty(j, "push_bare_jid")
  <2>1. /\ v \in Verdicts
        /\ v = "ok" <=> j["accounts"] # <<>>
        /\ v = "invalid" => j["accounts"] = <<>>
    BY DEF Verdicts
  <2>2. /\ w \in Verdicts
        /\ w = "ok" <=> Text(j, "push_bare_jid")
        /\ w = "invalid" => Empty(j, "push_bare_jid")
    BY StringChecked DEF Empty
  <2> HIDE DEF v, w
  <2>3. <<v, w>> \in Seq(Verdicts) /\ FirstFault(<<v, w>>) = IF v = "ok" THEN w ELSE v
    BY <2>1, <2>2, TwoChecks
  <2> QED
    BY <2>1, <2>2, <2>3
<1>2. /\ s \in Seq(Verdicts) /\ FirstFault(s) \in Verdicts
      /\ FirstFault(s) = "ok" <=> HasList(j) /\ \A a \in ToSet(j["accounts"]) : AccountRight(a)
      /\ FirstFault(s) = "invalid" =>
            ~HasList(j) \/ \E a \in ToSet(j["accounts"]) : AccountWrong(a)
  <2>1. CASE HasList(j)
    <3>1. l = j["accounts"]
      BY <2>1 DEF ListField, HasList
    <3>2. PICK n \in Nat : DOMAIN l = 1..n
      BY <2>1, <3>1 DEF IsDocument, IsList, HasList
    <3>3. /\ s \in [1..n -> Verdicts]
          /\ \A k \in 1..n : s[k] = "ok" <=> AccountRight(l[k])
          /\ \A k \in 1..n : s[k] = "invalid" => AccountWrong(l[k])
      BY <3>2, AccountChecked
    <3>4. ToSet(l) = {l[k] : k \in 1..n}
      BY <3>2 DEF ToSet
    <3> HIDE DEF s, l
    <3>5. /\ s \in Seq(Verdicts)
          /\ \/ FirstFault(s) = "ok" /\ \A k \in 1..n : s[k] = "ok"
             \/ FirstFault(s) \in {"invalid", "throws"} /\ \E k \in 1..n : s[k] = FirstFault(s)
      BY <3>3, ListOfChecks
    <3>6. FirstFault(s) = "ok" <=> \A k \in 1..n : s[k] = "ok"
      BY <3>5
    <3>7. FirstFault(s) = "ok" <=> \A k \in 1..n : AccountRight(l[k])
      BY <3>3, <3>6
    <3>8. FirstFault(s) = "invalid" => \E k \in 1..n : AccountWrong(l[k])
      BY <3>3, <3>5
    <3> QED
      BY <2>1, <3>1, <3>4, <3>5, <3>7, <3>8 DEF Verdicts
  <2>2. CASE ~HasList(j)
    <3>1. DOMAIN l = 1..1 /\ StringField(l[1], "account_id") = "invalid"
      BY <2>2, NoListChecked DEF HasList
    <3>2. FirstFault(PushAccount(l[1])) = "invalid"
      <4>1. /\ StringField(l[1], "account_id") \in Verdicts /\ StringField(l[1], "node") \in Verdicts
            /\ StringField(l[1], "secret") \in Verdicts /\ TypedField(l[1], "success") \in Verdicts
        BY StringChecked, TypedChecked
      <4> QED
        BY <3>1, <4>1, FourChecks DEF PushAccount
    <3>3. s \in [1..1 -> Verdicts] /\ s[1] = "invalid"
      BY <3>1, <3>2 DEF Verdicts
    <3> HIDE DEF s
    <3>4. /\ s \in Seq(Verdicts)
          /\ \/ FirstFault(s) = "ok" /\ \A k \in 1..1 : s[k] = "ok"
             \/ FirstFault(s) \in {"invalid", "throws"} /\ \E k \in 1..1 : s[k] = FirstFault(s)
      BY <3>3, ListOfChecks
    <3>5. FirstFault(s) = "invalid"
      BY <3>3, <3>4
    <3> QED
      BY <2>2, <3>4, <3>5 DEF Verdicts
  <2> QED
    BY <2>1, <2>2
<1>3. from_json("SUCCESS_SET_PUSH_ACCOUNT", j) = FirstFault(SuccessResponseMessage(j) \o s \o t)
  BY DEF from_json, SuccessSetPushAccountsMessage
<1> HIDE DEF s, t
<1> DEFINE h == SuccessResponseMessage(j)
<1>4. /\ h \in Seq(Verdicts) /\ FirstFault(h) \in Verdicts
      /\ FirstFault(h) = "ok" <=> HeadRight(j)
      /\ FirstFault(h) = "invalid" => HeadWrong(j)
  BY ResponseHeadChecked DEF SuccessResponseMessage
<1> HIDE DEF h
<1>5. h \o s \in Seq(Verdicts) /\ FirstFault(h \o s) = IF FirstFault(h) = "ok" THEN FirstFault(s)
                                                                              ELSE FirstFault(h)
  BY <1>2, <1>4, ChecksInOrder
<1>6. FirstFault(h \o s \o t) = IF FirstFault(h \o s) = "ok" THEN FirstFault(t)
                                                            ELSE FirstFault(h \o s)
  BY <1>1, <1>5, ChecksInOrder
<1> QED
  BY <1>1, <1>2, <1>3, <1>4, <1>5, <1>6 DEF h

LEMMA PushMessageChecked ==
    ASSUME NEW j, VersionRight(j), Text(j, "action"), Text(j, "account_id"),
           "message_count" \in DOMAIN j, j["message_count"] # Wrong,
           "pending_subscription_count" \in DOMAIN j, j["pending_subscription_count"] # Wrong
    PROVE  from_json("PUSH", j) = "ok"
<1> DEFINE t == <<StringField(j, "account_id"), TypedField(j, "message_count"),
                  TypedField(j, "pending_subscription_count")>>
<1>1. t = <<"ok", "ok", "ok">>
  BY StringChecked, TypedChecked
<1>2. t \in Seq(Verdicts) /\ FirstFault(t) = "ok"
  <2>1. "ok" \in Verdicts
    BY DEF Verdicts
  <2> QED
    BY <1>1, <2>1, ThreeChecks
<1>3. from_json("PUSH", j) = FirstFault(AbstractMessage(j) \o t)
  BY DEF from_json, PushMessage
<1> HIDE DEF t
<1> QED
  BY <1>2, <1>3, HeaderChecked, ChecksInOrder

LEMMA TestPushMessageChecked ==
    ASSUME NEW j, VersionRight(j), Text(j, "action")
    PROVE  from_json("TEST_PUSH", j) = "ok"
BY HeaderChecked DEF from_json, TestPushMessage

-----------------------------------------------------------------------------
(* The parser.                                                             *)

Requests == {"SET_CHANNEL_URI", "SET_PUSH_ACCOUNT", "REQUEST_TEST_PUSH"}
Responses == {"SUCCESS_SET_PUSH_ACCOUNT", "SUCCESS_RESPONSE", "ERROR_RESPONSE"}

\* Which class a document is tried as.
LEMMA ClassChosen ==
    ASSUME NEW j
    PROVE  /\ MessageType(j) \in {"null"} \union Requests \union Responses
           /\ MessageType(j) = "SET_CHANNEL_URI" <=>
                 "action" \in DOMAIN j /\ j["action"] = "set_channel_uri"
           /\ MessageType(j) = "SET_PUSH_ACCOUNT" <=>
                 "action" \in DOMAIN j /\ j["action"] = "set_push_accounts"
           /\ MessageType(j) = "REQUEST_TEST_PUSH" <=>
                 "action" \in DOMAIN j /\ j["action"] = "request_test_push"
           /\ MessageType(j) \in Responses =>
                 "action" \in DOMAIN j /\ j["action"] = "response" /\ "status" \in DOMAIN j
           /\ MessageType(j) = "ERROR_RESPONSE" => j["status"] = 0
           /\ MessageType(j) = "SUCCESS_RESPONSE" => j["status"] = 1 /\ "accounts" \notin DOMAIN j
           /\ MessageType(j) = "SUCCESS_SET_PUSH_ACCOUNT" =>
                 j["status"] = 1 /\ "accounts" \in DOMAIN j
BY DEF MessageType, Requests, Responses

LEMMA Parsed ==
    ASSUME NEW j
    PROVE  /\ parse(j) = "abort" => /\ MessageType(j) # "null"
                                    /\ from_json(MessageType(j), j) = "invalid"
           /\ \A type \in Requests \union Responses :
                 /\ parse(j) = type => MessageType(j) = type
                 /\ MessageType(j) = type /\ from_json(type, j) = "ok" => parse(j) = type
                 /\ MessageType(j) = type /\ from_json(type, j) \in Verdicts \ {"ok"} =>
                       parse(j) \in {"null", "abort"}
           /\ parse(j) \in {"null", "abort"} \union Requests \union Responses
<1>1. MessageType(j) \in {"null"} \union Requests \union Responses
  BY ClassChosen
<1>2. \A type \in Requests \union Responses : type \notin {"null", "abort"}
  BY DEF Requests, Responses
<1> QED
  BY <1>1, <1>2 DEF parse, Verdicts

\* RequestsRecognised: the parser takes a document for a request of a kind exactly if it is
\* one by the README: every field there, of its type, in its range and not empty
\* (parse, parse_json, the from_json of the three classes). In particular the order of the
\* checks, the exceptions and the default values of the constructors change nothing.
THEOREM RequestsRecognised ==
    ASSUME NEW j, IsDocument(j)
    PROVE  /\ parse(j) = "SET_CHANNEL_URI" <=> WellFormed("set_channel_uri", j)
           /\ parse(j) = "SET_PUSH_ACCOUNT" <=> WellFormed("set_push_accounts", j)
           /\ parse(j) = "REQUEST_TEST_PUSH" <=> WellFormed("request_test_push", j)
<1>1. parse(j) = "SET_CHANNEL_URI" <=> WellFormed("set_channel_uri", j)
  <2> DEFINE v == from_json("SET_CHANNEL_URI", j)
  <2>1. /\ v \in Verdicts
        /\ v = "ok" <=> /\ VersionRight(j) /\ Text(j, "action")
                        /\ Text(j, "channel_uri") /\ Text(j, "device_id")
    BY SetChannelUriChecked
  <2>2. parse(j) = "SET_CHANNEL_URI" <=> MessageType(j) = "SET_CHANNEL_URI" /\ v = "ok"
    BY <2>1, Parsed DEF Requests, Verdicts
  <2>3. MessageType(j) = "SET_CHANNEL_URI" <=>
          "action" \in DOMAIN j /\ j["action"] = "set_channel_uri"
    BY ClassChosen
  <2> QED
    BY <2>1, <2>2, <2>3 DEF WellFormed, Request, VersionRight, Text
<1>2. parse(j) = "SET_PUSH_ACCOUNT" <=> WellFormed("set_push_accounts", j)
  <2> DEFINE v == from_json("SET_PUSH_ACCOUNT", j)
  <2>1. /\ v \in Verdicts
        /\ v = "ok" <=> /\ VersionRight(j) /\ Text(j, "action")
                        /\ Listed(j, "account_id") /\ Text(j, "device_id")
    BY SetPushAccountsChecked
  <2>2. parse(j) = "SET_PUSH_ACCOUNT" <=> MessageType(j) = "SET_PUSH_ACCOUNT" /\ v = "ok"
    BY <2>1, Parsed DEF Requests, Verdicts
  <2>3. MessageType(j) = "SET_PUSH_ACCOUNT" <=>
          "action" \in DOMAIN j /\ j["action"] = "set_push_accounts"
    BY ClassChosen
  <2> QED
    BY <2>1, <2>2, <2>3 DEF WellFormed, Request, VersionRight, Text, Listed, HasList
<1>3. parse(j) = "REQUEST_TEST_PUSH" <=> WellFormed("request_test_push", j)
  <2> DEFINE v == from_json("REQUEST_TEST_PUSH", j)
  <2>1. /\ v \in Verdicts
        /\ v = "ok" <=> VersionRight(j) /\ Text(j, "action") /\ Text(j, "device_id")
    BY RequestTestPushChecked
  <2>2. parse(j) = "REQUEST_TEST_PUSH" <=> MessageType(j) = "REQUEST_TEST_PUSH" /\ v = "ok"
    BY <2>1, Parsed DEF Requests, Verdicts
  <2>3. MessageType(j) = "REQUEST_TEST_PUSH" <=>
          "action" \in DOMAIN j /\ j["action"] = "request_test_push"
    BY ClassChosen
  <2> QED
    BY <2>1, <2>2, <2>3 DEF WellFormed, Request, VersionRight, Text
<1> QED
  BY <1>1, <1>2, <1>3

\* AssertionsExplained: the assertion at the end of parse_json fails only for a document of
\* a known class that lacks one of its fields, or has it empty or out of range
\* (Parser.cpp:77).
THEOREM AssertionsExplained ==
    ASSUME NEW j, IsDocument(j), parse(j) = "abort"
    PROVE  Text(j, "action") /\ Incomplete(j)
<1> DEFINE type == MessageType(j)
<1>1. type \in Requests \union Responses /\ from_json(type, j) = "invalid"
  BY Parsed, ClassChosen
<1>2. "action" \in DOMAIN j /\ j["action"] \in Actions \union {"response"}
  BY <1>1, ClassChosen DEF Requests, Actions
<1>3. Text(j, "action") /\ ~Empty(j, "action")
  <2>1. \A action \in Actions \union {"response"} : action # Wrong /\ action # ""
    BY WrongAssumption DEF Actions, Texts
  <2> QED
    BY <1>2, <2>1 DEF Text, Empty
<1>4. VersionWrong(j) => Incomplete(j)
  BY DEF VersionWrong, Incomplete
<1>5. CASE type = "SET_CHANNEL_URI"
  <2>1. VersionWrong(j) \/ Empty(j, "channel_uri") \/ Empty(j, "device_id")
    BY <1>1, <1>3, <1>5, SetChannelUriChecked
  <2>2. j["action"] = "set_channel_uri"
    BY <1>5, ClassChosen
  <2> QED
    BY <1>3, <1>4, <2>1, <2>2 DEF Incomplete, Empty, Actions
<1>6. CASE type = "SET_PUSH_ACCOUNT"
  <2>1. VersionWrong(j) \/ Unlisted(j, {"account_id"}) \/ Empty(j, "device_id")
    BY <1>1, <1>3, <1>6, SetPushAccountsChecked
  <2>2. j["action"] = "set_push_accounts"
    BY <1>6, ClassChosen
  <2> QED
    BY <1>3, <1>4, <2>1, <2>2 DEF Incomplete, Empty, Actions, Unlisted, HasList
<1>7. CASE type = "REQUEST_TEST_PUSH"
  <2>1. VersionWrong(j) \/ Empty(j, "device_id")
    BY <1>1, <1>3, <1>7, RequestTestPushChecked
  <2>2. j["action"] = "request_test_push"
    BY <1>7, ClassChosen
  <2> QED
    BY <1>3, <1>4, <2>1, <2>2 DEF Incomplete, Empty, Actions
<1>8. ASSUME type \in Responses
      PROVE  j["action"] = "response" /\ ~StatusWrong(j)
  <2>1. "status" \in DOMAIN j /\ j["status"] \in {0, 1} /\ j["action"] = "response"
    BY <1>8, ClassChosen DEF Responses
  <2> QED
    BY <2>1 DEF StatusWrong
<1>9. CASE type = "ERROR_RESPONSE"
  <2>1. VersionWrong(j) \/ "error" \notin DOMAIN j
    BY <1>1, <1>3, <1>8, <1>9, ErrorResponseChecked DEF HeadWrong, Responses
  <2>2. j["status"] = 0
    BY <1>9, ClassChosen
  <2> QED
    BY <1>3, <1>4, <1>8, <1>9, <2>1, <2>2 DEF Incomplete, Responses
<1>10. CASE type = "SUCCESS_RESPONSE"
  BY <1>1, <1>3, <1>4, <1>8, <1>10, SuccessResponseChecked DEF HeadWrong, Responses
<1>11. CASE type = "SUCCESS_SET_PUSH_ACCOUNT"
  <2>1. j["status"] = 1 /\ "accounts" \in DOMAIN j
    BY <1>11, ClassChosen
  <2>2. \/ VersionWrong(j) \/ ~HasList(j)
        \/ \E a \in ToSet(j["accounts"]) : AccountWrong(a)
        \/ j["accounts"] = <<>> \/ Empty(j, "push_bare_jid")
    BY <1>1, <1>3, <1>8, <1>11, <2>1, SuccessSetPushAccountsChecked DEF HeadWrong, Responses
  <2> QED
    BY <1>3, <1>4, <1>8, <1>11, <2>1, <2>2
    DEF Incomplete, Responses, HasList, AccountWrong, Empty
<1> QED
  BY <1>1, <1>5, <1>6, <1>7, <1>9, <1>10, <1>11 DEF Requests, Responses

-----------------------------------------------------------------------------
(* What the server writes.                                                 *)

LEMMA WrongIsNoText ==
    /\ "" # Wrong /\ "response" # Wrong /\ "push" # Wrong /\ "test_push" # Wrong
    /\ "node" # Wrong /\ "secret" # Wrong /\ "jid" # Wrong
BY WrongAssumption, Zenon DEF Texts

LEMMA VersionWritten ==
    ASSUME NEW j, "version" \in DOMAIN j, j["version"] = 2
    PROVE  VersionRight(j)
BY DEF VersionRight

LEMMA StatusWritten ==
    ASSUME NEW j, "status" \in DOMAIN j, j["status"] \in {0, 1}
    PROVE  StatusRight(j)
BY DEF StatusRight

LEMMA HeaderWritten ==
    ASSUME NEW j, "version" \in DOMAIN j, "action" \in DOMAIN j, j["version"] = 2,
           j["action"] # "", j["action"] # Wrong
    PROVE  VersionRight(j) /\ Text(j, "action")
<1>2. VersionRight(j)
  BY VersionWritten, Zenon
<1>3. Text(j, "action")
  BY Zenon DEF Text
<1> QED
  BY <1>2, <1>3

LEMMA AnswerHeadWritten ==
    ASSUME NEW j, "version" \in DOMAIN j, "action" \in DOMAIN j, "status" \in DOMAIN j,
           j["version"] = 2, j["action"] = "response", j["status"] \in {0, 1}
    PROVE  HeadRight(j)
<1>1. j["action"] # "" /\ j["action"] # Wrong
  BY WrongIsNoText, Zenon
<1>2. VersionRight(j) /\ Text(j, "action")
  BY <1>1, HeaderWritten
<1>3. StatusRight(j)
  BY StatusWritten, Zenon
<1> QED
  BY <1>2, <1>3 DEF HeadRight

\* AnswersRead: the answers the server writes are read as what they were written as
\* (to_json and from_json of the response classes), a list of accounts if it is not empty.
THEOREM AnswersRead ==
    /\ parse(SuccessResponse_to_json) = "SUCCESS_RESPONSE"
    /\ \A error : error # Wrong => parse(ErrorResponse_to_json(error)) = "ERROR_RESPONSE"
    /\ \A accounts, jid :
          /\ IsList(accounts) /\ accounts # <<>> /\ accounts # Wrong /\ jid \notin {Wrong, ""}
          /\ \A a \in ToSet(accounts) : AccountRight(a)
          => parse(SuccessSetPushAccounts_to_json(accounts, jid)) = "SUCCESS_SET_PUSH_ACCOUNT"
<1>1. parse(SuccessResponse_to_json) = "SUCCESS_RESPONSE"
  <2> DEFINE j == SuccessResponse_to_json
  <2>1. /\ DOMAIN j = {"version", "action", "status"}
        /\ j["version"] = 2 /\ j["action"] = "response" /\ j["status"] = 1
    BY DEF SuccessResponse_to_json, AbstractResponse_to_json, VERSION
  <2> HIDE DEF j
  <2>2. HeadRight(j)
    BY <2>1, AnswerHeadWritten
  <2>3. MessageType(j) = "SUCCESS_RESPONSE"
    BY <2>1 DEF MessageType
  <2>4. parse(j) = "SUCCESS_RESPONSE"
    BY <2>2, <2>3, SuccessResponseChecked, Parsed DEF Responses
  <2> QED
    BY <2>4 DEF j
<1>2. ASSUME NEW error, error # Wrong
      PROVE  parse(ErrorResponse_to_json(error)) = "ERROR_RESPONSE"
  <2> DEFINE j == ErrorResponse_to_json(error)
  <2>1. /\ DOMAIN j = {"version", "action", "status", "error"}
        /\ j["version"] = 2 /\ j["action"] = "response" /\ j["status"] = 0
        /\ j["error"] = error
    BY DEF ErrorResponse_to_json, VERSION
  <2> HIDE DEF j
  <2>2. HeadRight(j)
    BY <2>1, AnswerHeadWritten
  <2>3. MessageType(j) = "ERROR_RESPONSE"
    BY <2>1 DEF MessageType
  <2>4. parse(j) = "ERROR_RESPONSE"
    BY <1>2, <2>1, <2>2, <2>3, ErrorResponseChecked, Parsed DEF Responses
  <2> QED
    BY <2>4 DEF j
<1>3. ASSUME NEW accounts, NEW jid,
             IsList(accounts), accounts # <<>>, accounts # Wrong, jid \notin {Wrong, ""},
             \A a \in ToSet(accounts) : AccountRight(a)
      PROVE  parse(SuccessSetPushAccounts_to_json(accounts, jid)) = "SUCCESS_SET_PUSH_ACCOUNT"
  <2> DEFINE j == SuccessSetPushAccounts_to_json(accounts, jid)
  <2>1. /\ DOMAIN j = {"version", "action", "status", "push_bare_jid", "accounts"}
        /\ j["version"] = 2 /\ j["action"] = "response" /\ j["status"] = 1
        /\ j["accounts"] = accounts /\ j["push_bare_jid"] = jid
    BY DEF SuccessSetPushAccounts_to_json, VERSION
  <2> HIDE DEF j
  <2>2. HeadRight(j) /\ Text(j, "push_bare_jid") /\ HasList(j) /\ IsDocument(j)
    <3>1. HeadRight(j)
      BY <2>1, AnswerHeadWritten
    <3>2. Text(j, "push_bare_jid")
      BY <1>3, <2>1 DEF Text
    <3>3. HasList(j) /\ IsDocument(j)
      BY <1>3, <2>1 DEF HasList, IsDocument
    <3> QED
      BY <3>1, <3>2, <3>3
  <2>3. MessageType(j) = "SUCCESS_SET_PUSH_ACCOUNT"
    BY <2>1 DEF MessageType
  <2>4. from_json("SUCCESS_SET_PUSH_ACCOUNT", j) = "ok"
    BY <1>3, <2>1, <2>2, SuccessSetPushAccountsChecked
  <2>5. parse(j) = "SUCCESS_SET_PUSH_ACCOUNT"
    BY <2>3, <2>4, Parsed DEF Responses
  <2> QED
    BY <2>5 DEF j
<1> QED
  BY <1>1, <1>2, <1>3

\* PayloadsRead: so are the payloads a device that speaks version 2 gets (PushMessage,
\* TestPushMessage).
THEOREM PayloadsRead ==
    /\ from_json("TEST_PUSH", TestPush_to_json) = "ok"
    /\ \A account, messages, subscriptions :
          account \notin {Wrong, ""} /\ messages # Wrong /\ subscriptions # Wrong
          => from_json("PUSH", Push_to_json(account, messages, subscriptions)) = "ok"
<1>1. from_json("TEST_PUSH", TestPush_to_json) = "ok"
  <2> DEFINE j == TestPush_to_json
  <2>1. DOMAIN j = {"version", "action"} /\ j["version"] = 2 /\ j["action"] = "test_push"
    BY DEF TestPush_to_json, AbstractMessage_to_json, VERSION
  <2> HIDE DEF j
  <2>2. VersionRight(j) /\ Text(j, "action")
    <3>1. j["action"] # "" /\ j["action"] # Wrong
      BY <2>1, WrongIsNoText, Zenon
    <3> QED
      BY <2>1, <3>1, HeaderWritten
  <2>3. from_json("TEST_PUSH", j) = "ok"
    BY <2>2, TestPushMessageChecked
  <2> QED
    BY <2>3 DEF j
<1>2. ASSUME NEW account, NEW messages, NEW subscriptions,
             account \notin {Wrong, ""}, messages # Wrong, subscriptions # Wrong
      PROVE  from_json("PUSH", Push_to_json(account, messages, subscriptions)) = "ok"
  <2> DEFINE j == Push_to_json(account, messages, subscriptions)
  <2>1. /\ DOMAIN j = {"version", "action", "account_id", "message_count",
                       "pending_subscription_count"}
        /\ j["version"] = 2 /\ j["action"] = "push" /\ j["account_id"] = account
        /\ j["message_count"] = messages /\ j["pending_subscription_count"] = subscriptions
    BY DEF Push_to_json, VERSION
  <2> HIDE DEF j
  <2>2. VersionRight(j) /\ Text(j, "action") /\ Text(j, "account_id")
    <3>1. j["action"] # "" /\ j["action"] # Wrong
      BY <2>1, WrongIsNoText, Zenon
    <3>2. VersionRight(j) /\ Text(j, "action")
      BY <2>1, <3>1, HeaderWritten
    <3>3. Text(j, "account_id")
      BY <1>2, <2>1, Zenon DEF Text
    <3> QED
      BY <3>2, <3>3
  <2>3. from_json("PUSH", j) = "ok"
    BY <1>2, <2>1, <2>2, PushMessageChecked
  <2> QED
    BY <2>3 DEF j
<1> QED
  BY <1>1, <1>2

=============================================================================
