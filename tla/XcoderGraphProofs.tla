-------------------------- MODULE XcoderGraphProofs --------------------------
(***************************************************************************)
(* The graph of MsdkXcoder stays whole under every call, for any number of *)
(* elements and calls.  The inductive invariant says what each list and    *)
(* map may name, that every element is owned by one of them or lost, and   *)
(* which pads may lead where.  The calls that add elements differ in what  *)
(* they add only: Grows has what they have in common.                      *)
(***************************************************************************)
EXTENDS XcoderGraph, FiniteSetTheorems, SequenceTheorems, WellFoundedInduction, TLAPS

ElementTypes == DecTypes \cup EncTypes \cup {"DIS", "VPP", "RENDER"}
DecElements == OfKind(DecTypes)
VppElements == OfKind({"VPP"})
EncElements == OfKind(EncTypes)
DisElements == OfKind({"DIS"})
RenderElements == OfKind({"RENDER"})

Decs == ToSet(dec_list_)
Vpps == ToSet(vpp_list_)
Detached == ToSet(del_dec_list_)
Renders == {xcoder.render_} \ {Null}
OwnedElements == Decs \cup Vpps \cup Encs \cup Detached \cup Dispatchers \cup Renders

\* What the lists name is of the kind the list is for; a dispatcher was
\* created right after the element it belongs to.
ListInv ==
  /\ kind \in Seq(ElementTypes)
  /\ dec_list_ \in Seq(DecElements) /\ IsInjective(dec_list_)
  /\ vpp_list_ \in Seq(VppElements) /\ IsInjective(vpp_list_)
  /\ del_dec_list_ \in Seq(DecElements) /\ Decs \cap Detached = {}
  /\ \A e \in Decs \cup Vpps : e + 1 \in DisElements
  /\ dec_dis_map_ = [d \in Decs |-> d + 1]
  /\ vpp_dis_map_ = [v \in Vpps |-> v + 1]

\* An encoder belongs to one VPP, or to none; a VPP that does not render has
\* an encoder.
PairInv ==
  /\ enc_multimap_ \subseteq (Vpps \cup {Null}) \X EncElements
  /\ \A p, q \in enc_multimap_ : p[2] = q[2] => p = q
  /\ Renders \subseteq RenderElements
  /\ xcoder.done_init_ /\ ~xcoder.m_bRender_ =>
       \A v \in Vpps : \E e : <<v, e>> \in enc_multimap_
  /\ xcoder.done_init_ => xcoder.m_bRender_ \/ xcoder.cleaned \/ enc_multimap_ # {}

\* Every element that is not deleted is owned or lost.
LiveInv ==
  /\ live = OwnedElements \cup lost
  /\ lost \subseteq Elements /\ lost \cap OwnedElements = {}
  /\ asked \subseteq live

\* Where a source pad may lead.
MayLink(l) ==
  \/ \E e \in Decs \cup Vpps : l = <<e, e + 1>>
  \/ \E d \in Decs : l[1] = d + 1 /\ (l[2] \in Vpps \/ <<Null, l[2]>> \in enc_multimap_)
  \/ \E v \in Vpps : l[1] = v + 1 /\ (l[2] \in Renders \/ <<v, l[2]>> \in enc_multimap_)

LinkInv ==
  /\ \A l \in links : l \in Elements \X Elements /\ MayLink(l)
  /\ xcoder.done_init_ =>
       /\ \A e \in Decs \cup Vpps : <<e, e + 1>> \in links
       /\ \A p \in enc_multimap_ : p[1] # Null => <<p[1] + 1, p[2]>> \in links

Nothing ==
  /\ dec_list_ = << >> /\ vpp_list_ = << >> /\ del_dec_list_ = << >>
  /\ enc_multimap_ = {} /\ Renders = {} /\ links = {}

XcoderStates ==
  [done_init_ : BOOLEAN, is_running_ : BOOLEAN, m_bRender_ : BOOLEAN, render_ : Nat,
   joining : BOOLEAN, cleaned : BOOLEAN]

\* Before the first call, and after CleanUpResource, nothing is owned.
EndsInv ==
  /\ xcoder \in XcoderStates
  /\ calls \in Nat
  /\ calls = 0 => /\ Nothing /\ kind = << >> /\ lost = {} /\ threads = {}
                  /\ ~xcoder.done_init_ /\ ~xcoder.is_running_
  /\ xcoder.cleaned => Nothing /\ session_list_ = 0 /\ m_pAllocArray = 0

GInv == ListInv /\ PairInv /\ LiveInv /\ LinkInv /\ ThreadsFollowTheTranscoder /\ EndsInv

-----------------------------------------------------------------------------
(* Lists, maps and kinds. *)

LEMMA ListGrows ==
  ASSUME NEW T, NEW s \in Seq(T), NEW e \in T
  PROVE  /\ Append(s, e) \in Seq(T)
         /\ ToSet(Append(s, e)) = ToSet(s) \cup {e}
         /\ IsInjective(s) /\ e \notin ToSet(s) => IsInjective(Append(s, e))
<1>1. /\ Len(Append(s, e)) = Len(s) + 1 /\ Append(s, e) \in Seq(T)
      /\ \A i \in 1 .. Len(s) : Append(s, e)[i] = s[i]
      /\ Append(s, e)[Len(s) + 1] = e /\ Len(s) \in Nat
  BY AppendProperties
<1>2. DOMAIN Append(s, e) = 1 .. Len(s) + 1 /\ DOMAIN s = 1 .. Len(s)
  BY <1>1, LenProperties
<1>3. 1 .. Len(s) + 1 = (1 .. Len(s)) \cup {Len(s) + 1}
  BY <1>1
<1>4. ToSet(Append(s, e)) = ToSet(s) \cup {e}
  BY <1>1, <1>2, <1>3 DEF ToSet
<1>5. ASSUME IsInjective(s), e \notin ToSet(s)
      PROVE  IsInjective(Append(s, e))
  <2>1. \A i \in 1 .. Len(s) : Append(s, e)[i] # e
    BY <1>1, <1>2, <1>5 DEF ToSet
  <2> QED BY <1>1, <1>2, <1>3, <1>5, <2>1 DEF IsInjective
<1> QED BY <1>1, <1>4, <1>5

LEMMA ListLoses ==
  ASSUME NEW S, NEW s \in Seq(S), IsInjective(s), NEW e \in ToSet(s)
  PROVE  /\ Without(s, e) \in Seq(S) /\ IsInjective(Without(s, e))
         /\ ToSet(Without(s, e)) = ToSet(s) \ {e}
<1> DEFINE n == Len(s)
           k == CHOOSE i \in DOMAIN s : s[i] = e
           t == RemoveAt(s, k)
           from(i) == IF i < k THEN i ELSE i + 1
<1>1. n \in Nat /\ DOMAIN s = 1 .. n /\ \A i \in 1 .. n : s[i] \in S
  BY LenProperties
<1>2. k \in 1 .. n /\ s[k] = e
  BY <1>1 DEF ToSet
<1> HIDE DEF k
<1>3. /\ SubSeq(s, 1, k - 1) \in Seq(S) /\ Len(SubSeq(s, 1, k - 1)) = k - 1
      /\ \A i \in 1 .. k - 1 : SubSeq(s, 1, k - 1)[i] = s[i]
  BY <1>1, <1>2, SubSeqProperties
<1>4. /\ SubSeq(s, k + 1, n) \in Seq(S) /\ Len(SubSeq(s, k + 1, n)) = n - k
      /\ \A i \in 1 .. n - k : SubSeq(s, k + 1, n)[i] = s[k + i]
  <2>1. k + 1 \in Int /\ n \in Int /\ \A i \in k + 1 .. n : s[i] \in S
    BY <1>1, <1>2
  <2>2. /\ SubSeq(s, k + 1, n) \in Seq(S)
        /\ Len(SubSeq(s, k + 1, n)) = IF k + 1 <= n THEN n - (k + 1) + 1 ELSE 0
        /\ \A i \in 1 .. n - (k + 1) + 1 : SubSeq(s, k + 1, n)[i] = s[(k + 1) + i - 1]
    BY <2>1, SubSeqProperties
  <2>3. n - (k + 1) + 1 = n - k /\ \A i \in 1 .. n - k : (k + 1) + i - 1 = k + i
    BY <1>1, <1>2
  <2> HIDE DEF n, k
  <2> QED BY <1>1, <1>2, <2>2, <2>3
<1>5. t \in Seq(S) /\ Len(t) = n - 1 /\ DOMAIN t = 1 .. n - 1
  <2>1. t = SubSeq(s, 1, k - 1) \o SubSeq(s, k + 1, n)
    BY DEF RemoveAt
  <2> HIDE DEF t
  <2>2. t \in Seq(S) /\ Len(t) = (k - 1) + (n - k)
    BY <1>3, <1>4, <2>1, ConcatProperties
  <2> QED BY <1>1, <1>2, <2>2, LenProperties
<1>6. ASSUME NEW i \in 1 .. n - 1
      PROVE  t[i] = s[from(i)] /\ from(i) \in 1 .. n /\ from(i) # k
  <2>0. t = SubSeq(s, 1, k - 1) \o SubSeq(s, k + 1, n)
    BY DEF RemoveAt
  <2> HIDE DEF t
  <2>1. t[i] = IF i <= k - 1 THEN SubSeq(s, 1, k - 1)[i]
               ELSE SubSeq(s, k + 1, n)[i - (k - 1)]
    <3>1. i \in 1 .. (k - 1) + (n - k)
      BY <1>1, <1>2
    <3> QED BY <1>3, <1>4, <2>0, <3>1, ConcatProperties, SMTT(20)
  <2>2. CASE i < k
    BY <1>1, <1>2, <1>3, <2>1, <2>2
  <2>3. CASE i >= k
    <3>1. i - (k - 1) \in 1 .. n - k /\ ~ (i <= k - 1) /\ k + (i - (k - 1)) = i + 1
      BY <1>1, <1>2, <2>3
    <3>2. t[i] = s[i + 1]
      BY <1>4, <2>1, <3>1
    <3> QED BY <1>1, <1>2, <2>3, <3>2
  <2> QED BY <1>1, <1>2, <2>2, <2>3
<1>7. IsInjective(t)
  <2> SUFFICES ASSUME NEW i \in 1 .. n - 1, NEW j \in 1 .. n - 1, t[i] = t[j]
               PROVE  i = j
    BY <1>5 DEF IsInjective
  <2>1. from(i) = from(j)
    BY <1>1, <1>6 DEF IsInjective
  <2> QED BY <1>1, <1>2, <2>1
<1>8. ToSet(t) = ToSet(s) \ {e}
  <2>1. ASSUME NEW i \in 1 .. n - 1 PROVE t[i] \in ToSet(s) /\ t[i] # e
    BY <1>1, <1>2, <1>6 DEF ToSet, IsInjective
  <2>2. ASSUME NEW j \in 1 .. n, s[j] # e PROVE \E i \in 1 .. n - 1 : t[i] = s[j]
    <3>1. CASE j < k
      <4>1. j \in 1 .. n - 1 /\ from(j) = j
        BY <1>1, <1>2, <3>1
      <4> QED BY <1>6, <4>1
    <3>2. CASE j > k
      <4>1. j - 1 \in 1 .. n - 1 /\ from(j - 1) = j
        BY <1>1, <1>2, <3>2
      <4> QED BY <1>6, <4>1
    <3> QED BY <1>1, <1>2, <2>2, <3>1, <3>2
  <2>3. ToSet(t) = {t[i] : i \in 1 .. n - 1} /\ ToSet(s) = {s[i] : i \in 1 .. n}
    BY <1>1, <1>5 DEF ToSet
  <2> HIDE DEF t, n
  <2>4. ASSUME NEW x PROVE x \in ToSet(t) <=> x \in ToSet(s) \ {e}
    BY <2>1, <2>2, <2>3
  <2> QED BY <2>4
<1> QED BY <1>5, <1>7, <1>8 DEF k, Without

LEMMA MembersOfSeq ==
  ASSUME NEW S, NEW s \in Seq(S)
  PROVE  ToSet(s) \subseteq S
BY LenProperties DEF ToSet

\* A list without repetitions that is not of length 1 has another element.
LEMMA AnotherIsThere ==
  ASSUME NEW S, NEW s \in Seq(S), IsInjective(s), Len(s) # 1, NEW e \in ToSet(s)
  PROVE  \E d \in ToSet(s) : d # e
<1>1. Len(s) \in Nat /\ DOMAIN s = 1 .. Len(s)
  BY LenProperties
<1>2. PICK i \in 1 .. Len(s) : s[i] = e
  BY <1>1 DEF ToSet
<1>3. PICK j \in 1 .. Len(s) : j # i
  <2>1. Len(s) >= 2
    BY <1>1
  <2>2. 1 \in 1 .. Len(s) /\ 2 \in 1 .. Len(s)
    BY <1>1, <2>1
  <2> QED BY <2>2
<1> QED BY <1>1, <1>2, <1>3 DEF ToSet, IsInjective

LEMMA MapsFollow ==
  ASSUME NEW D \in SUBSET Nat, NEW e \in Nat, NEW m, m = [d \in D |-> d + 1]
  PROVE  /\ Assign(m, e, e + 1) = [d \in D \cup {e} |-> d + 1]
         /\ Restrict(m, DOMAIN m \ {e}) = [d \in D \ {e} |-> d + 1]
BY DEF Assign, Restrict

\* Elements have one kind; Null is none of them.
KindFacts ==
  /\ DecElements \cap VppElements = {} /\ DecElements \cap EncElements = {}
  /\ DecElements \cap DisElements = {} /\ DecElements \cap RenderElements = {}
  /\ VppElements \cap EncElements = {} /\ VppElements \cap DisElements = {}
  /\ VppElements \cap RenderElements = {} /\ EncElements \cap DisElements = {}
  /\ EncElements \cap RenderElements = {} /\ DisElements \cap RenderElements = {}
  /\ DecElements \subseteq Elements /\ VppElements \subseteq Elements
  /\ EncElements \subseteq Elements /\ DisElements \subseteq Elements
  /\ RenderElements \subseteq Elements
  /\ Elements \subseteq Nat /\ Elements = 1 .. Len(kind) /\ Len(kind) \in Nat
  /\ Null \notin Elements

LEMMA KindsDiffer == kind \in Seq(ElementTypes) => KindFacts
<1> SUFFICES ASSUME kind \in Seq(ElementTypes) PROVE KindFacts
  OBVIOUS
<1>1. Len(kind) \in Nat
  OBVIOUS
<1>2. /\ Elements \subseteq Nat /\ Elements = 1 .. Len(kind) /\ Len(kind) \in Nat
      /\ Null \notin Elements
  BY <1>1 DEF Elements, Null
<1> QED
  BY <1>2 DEF KindFacts, DecElements, VppElements, EncElements, DisElements,
              RenderElements, OfKind, DecTypes, EncTypes

\* What ListInv says of the lists as sets.
ListFacts ==
  /\ KindFacts
  /\ Decs \subseteq DecElements /\ Vpps \subseteq VppElements
  /\ Detached \subseteq DecElements /\ Decs \cap Detached = {}
  /\ \A e \in Decs \cup Vpps : e + 1 \in DisElements
  /\ Dispatchers = {e + 1 : e \in Decs \cup Vpps} /\ Dispatchers \subseteq DisElements
  /\ Range(dec_dis_map_) = {d + 1 : d \in Decs}

LEMMA ListsAreSets == ListInv => ListFacts
<1> SUFFICES ASSUME ListInv PROVE ListFacts
  OBVIOUS
<1> DEFINE f == [d \in Decs |-> d + 1]
           g == [v \in Vpps |-> v + 1]
<1>1. /\ Dispatchers = {e + 1 : e \in Decs \cup Vpps}
      /\ Range(dec_dis_map_) = {d + 1 : d \in Decs}
  <2>1. Range(f) = {d + 1 : d \in Decs} /\ Range(g) = {v + 1 : v \in Vpps}
    BY DEF Range
  <2>2. dec_dis_map_ = f /\ vpp_dis_map_ = g
    BY DEF ListInv
  <2> HIDE DEF f, g
  <2> QED BY <2>1, <2>2 DEF Dispatchers
<1>2. Decs \subseteq DecElements /\ Vpps \subseteq VppElements /\ Detached \subseteq DecElements
  BY MembersOfSeq DEF ListInv, Decs, Vpps, Detached
<1>3. Dispatchers \subseteq DisElements
  BY <1>1 DEF ListInv
<1> QED BY <1>1, <1>2, <1>3, KindsDiffer DEF ListInv, ListFacts

LEMMA ListsAreSetsAfter == ListInv' => ListFacts'
BY ListsAreSets, PTL

\* What the maximum of a set is needs a well-founded order.
LEMMA MaxIsAMember ==
  ASSUME NEW S, S \subseteq Nat, S # {}, NEW n \in Nat, \A x \in S : x <= n
  PROVE  Max(S) \in S
<1> DEFINE T == {x \in Nat : n - x \in S}
<1>1. IsWellFoundedOn(OpToRel(<, Nat), Nat)
  BY NatLessThanWellFounded
<1>2. T \subseteq Nat /\ T # {}
  <2>1. PICK x \in S : TRUE
    OBVIOUS
  <2>2. n - x \in T
    BY <2>1
  <2> QED BY <2>2
<1>3. PICK x \in T : \A y \in T : ~ (<<y, x>> \in OpToRel(<, Nat))
  BY <1>1, <1>2, WFMin
<1>4. \A y \in T : y >= x
  <2> SUFFICES ASSUME NEW y \in T PROVE y >= x
    OBVIOUS
  <2>1. ~ (<<y, x>> \in OpToRel(<, Nat))
    BY <1>3
  <2> QED BY <2>1 DEF OpToRel
<1>5. n - x \in S /\ \A y \in S : n - x >= y
  <2> SUFFICES ASSUME NEW y \in S PROVE n - x >= y
    BY <1>3
  <2>1. n - y \in T
    OBVIOUS
  <2> QED BY <1>4, <2>1
<1> QED BY <1>5 DEF Max

-----------------------------------------------------------------------------
(* What the calls that add elements have in common, Init among them: ND     *)
(* decoders and NV VPPs with their dispatchers, the pairs NE, the render    *)
(* element NR, the links NL, or elements Dead that no list will name; the   *)
(* detached decoders may be deleted.                                        *)

Growth(ND, NV, NE, NR, NL, Dead) ==
  /\ ~xcoder.cleaned /\ ~xcoder'.cleaned /\ calls' \in Nat \ {0}
  /\ xcoder' \in XcoderStates /\ xcoder'.is_running_ = xcoder.is_running_
  /\ \/ calls = 0
     \/ /\ xcoder'.done_init_ = xcoder.done_init_
        /\ xcoder'.m_bRender_ = xcoder.m_bRender_
  /\ Elements \subseteq Elements' /\ EncElements \subseteq EncElements'
  /\ RenderElements \subseteq RenderElements'
  /\ ND \subseteq Elements' \ Elements /\ NV \subseteq Elements' \ Elements
  /\ NR \subseteq RenderElements' \ Elements /\ Dead \subseteq Elements' \ Elements
  /\ NE \subseteq (Vpps' \cup {Null}) \X (EncElements' \ Elements)
  /\ \A p, q \in NE : p = q
  /\ xcoder'.done_init_ =>
       /\ \A v \in NV : xcoder'.m_bRender_ \/ \E e : <<v, e>> \in NE
       /\ \A e \in ND \cup NV : <<e, e + 1>> \in NL
       /\ \A p \in NE : p[1] # Null => <<p[1] + 1, p[2]>> \in NL
       /\ xcoder.done_init_ \/ xcoder'.m_bRender_ \/ NE # {}
  /\ Dead # {} => ND = {} /\ NV = {} /\ NE = {} /\ NR = {}
  /\ Decs' = Decs \cup ND /\ Vpps' = Vpps \cup NV /\ Detached' \subseteq Detached
  /\ enc_multimap_' = enc_multimap_ \cup NE /\ Renders' = Renders \cup NR
  /\ links' = links \cup NL /\ lost' = lost \cup Dead
  /\ live' = (live \ (Detached \ Detached')) \cup ND \cup NV
               \cup {e + 1 : e \in ND \cup NV} \cup {p[2] : p \in NE} \cup NR \cup Dead
  /\ asked' = {}
  /\ \A l \in NL : l \in Elements' \X Elements' /\ MayLink(l)'
  /\ threads' = IF xcoder.is_running_ THEN threads \cup ND \cup NV \cup {p[2] : p \in NE}
                ELSE threads

LEMMA Grows ==
  ASSUME GInv, ListInv', NEW ND, NEW NV, NEW NE, NEW NR, NEW NL, NEW Dead,
         Growth(ND, NV, NE, NR, NL, Dead)
  PROVE  GInv'
<1> USE DEF Growth
<1>1. calls = 0 => Decs = {} /\ Vpps = {} /\ enc_multimap_ = {}
  BY DEF GInv, EndsInv, Nothing, Decs, Vpps, ToSet
<1>2. ListFacts /\ ListFacts'
  BY ListsAreSets, ListsAreSetsAfter DEF GInv
<1>3. Encs' = Encs \cup {p[2] : p \in NE} /\ Encs \subseteq EncElements
  BY DEF Encs, GInv, PairInv
<1>4. Dispatchers' = Dispatchers \cup {e + 1 : e \in ND \cup NV}
  BY <1>2 DEF ListFacts
<1>5. PairInv'
  <2>1. enc_multimap_' \subseteq (Vpps' \cup {Null}) \X EncElements'
    BY DEF GInv, PairInv
  <2>2. ASSUME NEW p \in enc_multimap_', NEW q \in enc_multimap_', p[2] = q[2]
        PROVE  p = q
    <3>1. \A r \in enc_multimap_ : r[2] \in Elements
      BY <1>2 DEF GInv, PairInv, ListFacts, KindFacts
    <3>2. \A r \in NE : r[2] \notin Elements
      OBVIOUS
    <3> QED BY <2>2, <3>1, <3>2 DEF GInv, PairInv
  <2>3. Renders' \subseteq RenderElements'
    BY DEF GInv, PairInv
  <2>4. ASSUME xcoder'.done_init_, ~xcoder'.m_bRender_, NEW v \in Vpps'
        PROVE  \E e : <<v, e>> \in enc_multimap_'
    BY <1>1, <2>4 DEF GInv, PairInv
  <2>5. xcoder'.done_init_ => xcoder'.m_bRender_ \/ enc_multimap_' # {}
    BY <1>1 DEF GInv, PairInv, EndsInv
  <2> QED BY <2>1, <2>2, <2>3, <2>4, <2>5 DEF PairInv
<1>6. LiveInv'
  <2> DEFINE New == ND \cup NV \cup {e + 1 : e \in ND \cup NV} \cup {p[2] : p \in NE} \cup NR
  <2>1. New \cap Elements = {}
    <3>1. \A e \in ND \cup NV : e \in Nat /\ e # 0 /\ e \notin 1 .. Len(kind)
      BY <1>2 DEF ListFacts, KindFacts, Null
    <3>2. Elements = 1 .. Len(kind) /\ Len(kind) \in Nat
      BY <1>2 DEF ListFacts, KindFacts
    <3>3. \A e \in ND \cup NV : e + 1 \notin Elements
      BY <3>1, <3>2
    <3> QED BY <3>3
  <2>2. OwnedElements' = (OwnedElements \ (Detached \ Detached')) \cup New
    <3>1. (Detached \ Detached') \cap (Decs \cup Vpps \cup Encs \cup Dispatchers \cup Renders)
             = {}
      <4>1. Renders \subseteq RenderElements
        BY DEF GInv, PairInv
      <4> QED BY <1>2, <1>3, <4>1, ZenonT(30) DEF ListFacts, KindFacts
    <3> DEFINE Nexts == {e + 1 : e \in ND \cup NV}
               Seconds == {p[2] : p \in NE}
    <3>2. Dispatchers' = Dispatchers \cup Nexts /\ Encs' = Encs \cup Seconds
      BY <1>3, <1>4
    <3>3. New = ND \cup NV \cup Nexts \cup Seconds \cup NR
      OBVIOUS
    <3> HIDE DEF New, Nexts, Seconds
    <3> QED BY <1>1, <3>1, <3>2, <3>3 DEF OwnedElements
  <2>3. OwnedElements \subseteq Elements
    BY <1>2, <1>3 DEF OwnedElements, ListFacts, KindFacts, GInv, PairInv
  <2>4. (Detached \ Detached') \subseteq OwnedElements
    BY DEF OwnedElements
  <2>5. live' = (live \ (Detached \ Detached')) \cup New \cup Dead
    OBVIOUS
  <2>6. Dead # {} => New = {}
    OBVIOUS
  <2> HIDE DEF New
  <2> QED BY <2>1, <2>2, <2>3, <2>4, <2>5, <2>6 DEF GInv, LiveInv
<1>7. LinkInv'
  <2>1. ASSUME NEW l, MayLink(l) PROVE MayLink(l)'
    BY <1>1, <2>1 DEF MayLink
  <2>2. \A l \in links' : l \in Elements' \X Elements' /\ MayLink(l)'
    BY <2>1 DEF GInv, LinkInv
  <2> QED BY <1>1, <2>2 DEF GInv, LinkInv, EndsInv
<1>8. ThreadsFollowTheTranscoder'
  BY <1>3 DEF GInv, ThreadsFollowTheTranscoder, Listed, Decs, Vpps
<1>9. EndsInv'
  BY DEF GInv, EndsInv
<1> QED BY <1>5, <1>6, <1>7, <1>8, <1>9 DEF GInv

\* What creating elements does to their kinds.
LEMMA Created ==
  ASSUME kind \in Seq(ElementTypes), NEW types \in Seq(ElementTypes),
         kind' = kind \o types
  PROVE  /\ kind' \in Seq(ElementTypes)
         /\ Elements \subseteq Elements'
         /\ DecElements \subseteq DecElements' /\ VppElements \subseteq VppElements'
         /\ EncElements \subseteq EncElements' /\ DisElements \subseteq DisElements'
         /\ RenderElements \subseteq RenderElements'
         /\ Elements' \ Elements = {Len(kind) + i : i \in 1 .. Len(types)}
         /\ Elements' \ Elements = Len(kind) + 1 .. Len(kind) + Len(types)
         /\ \A i \in 1 .. Len(types) :
              /\ types[i] \in DecTypes => Len(kind) + i \in DecElements'
              /\ types[i] = "VPP" => Len(kind) + i \in VppElements'
              /\ types[i] \in EncTypes => Len(kind) + i \in EncElements'
              /\ types[i] = "DIS" => Len(kind) + i \in DisElements'
              /\ types[i] = "RENDER" => Len(kind) + i \in RenderElements'
<1> DEFINE n == Len(kind)
           m == Len(types)
<1>1. n \in Nat /\ m \in Nat /\ kind' \in Seq(ElementTypes) /\ Len(kind') = n + m
  BY ConcatProperties
<1>2. /\ \A e \in 1 .. n : kind'[e] = kind[e]
      /\ \A i \in 1 .. m : kind'[n + i] = types[i]
  <2>1. \A e \in 1 .. n + m : kind'[e] = IF e <= n THEN kind[e] ELSE types[e - n]
    BY ConcatProperties
  <2>2. \A i \in 1 .. m : n + i \in 1 .. n + m /\ ~ (n + i <= n) /\ (n + i) - n = i
    BY <1>1
  <2>3. \A e \in 1 .. n : e \in 1 .. n + m /\ e <= n
    BY <1>1
  <2> QED BY <2>1, <2>2, <2>3
<1>3. Elements = 1 .. n /\ Elements' = 1 .. n + m
  BY <1>1 DEF Elements
<1>4. /\ 1 .. n \subseteq 1 .. n + m
      /\ \A i \in 1 .. m : n + i \in 1 .. n + m
      /\ (1 .. n + m) \ (1 .. n) = {n + i : i \in 1 .. m}
      /\ (1 .. n + m) \ (1 .. n) = n + 1 .. n + m
  <2>1. \A e \in (1 .. n + m) \ (1 .. n) : e - n \in 1 .. m /\ e = n + (e - n)
    BY <1>1
  <2> QED BY <1>1, <2>1
<1> HIDE DEF n, m
<1>5. \A e \in Elements : e \in Elements' /\ kind'[e] = kind[e]
  BY <1>2, <1>3, <1>4
<1>6. \A i \in 1 .. m : n + i \in Elements' /\ kind'[n + i] = types[i]
  BY <1>2, <1>3, <1>4
<1>7. /\ DecElements \subseteq DecElements' /\ VppElements \subseteq VppElements'
      /\ EncElements \subseteq EncElements' /\ DisElements \subseteq DisElements'
      /\ RenderElements \subseteq RenderElements'
  BY <1>5 DEF DecElements, VppElements, EncElements, DisElements, RenderElements, OfKind
<1>8. \A i \in 1 .. m :
        /\ types[i] \in DecTypes => n + i \in DecElements'
        /\ types[i] = "VPP" => n + i \in VppElements'
        /\ types[i] \in EncTypes => n + i \in EncElements'
        /\ types[i] = "DIS" => n + i \in DisElements'
        /\ types[i] = "RENDER" => n + i \in RenderElements'
  BY <1>6 DEF DecElements, VppElements, EncElements, DisElements, RenderElements, OfKind
<1> QED BY <1>1, <1>3, <1>4, <1>5, <1>7, <1>8 DEF n, m

LEMMA TypesAre ==
  ASSUME NEW call, NEW codec, NEW fei
  PROVE  /\ DecElement(call, codec) \in DecTypes \cup {"NULL"}
         /\ EncElement(codec, fei) \in EncTypes \cup {"NULL"}
         /\ "NULL" \notin ElementTypes
<1>1. \A type : createElement(type) \in {type, "NULL"}
  BY DEF createElement
<1>2. DecElement(call, codec) \in DecTypes \cup {"NULL"}
  BY <1>1 DEF DecElement, GetElementType, DecTypes
<1>3. EncElement(codec, fei) \in EncTypes \cup {"NULL"}
  BY <1>1 DEF EncElement, GetElementType, EncTypes
<1> QED BY <1>2, <1>3 DEF ElementTypes, DecTypes, EncTypes

\* The calls that leave lists and links alone.
LEMMA Keeps ==
  ASSUME GInv,
         UNCHANGED <<kind, live, lost, dec_list_, vpp_list_, del_dec_list_, dec_dis_map_,
                     vpp_dis_map_, enc_multimap_, links>>,
         asked' \subseteq live, ThreadsFollowTheTranscoder',
         xcoder' \in XcoderStates, xcoder'.done_init_ = xcoder.done_init_,
         xcoder'.m_bRender_ = xcoder.m_bRender_, xcoder'.render_ = xcoder.render_,
         xcoder'.cleaned = xcoder.cleaned, calls' \in Nat,
         calls' = 0 => calls = 0 /\ threads' = {} /\ ~xcoder'.is_running_,
         xcoder.cleaned => UNCHANGED <<session_list_, m_pAllocArray>>
  PROVE  GInv'
<1>1. /\ Decs' = Decs /\ Vpps' = Vpps /\ Detached' = Detached /\ Encs' = Encs
      /\ Dispatchers' = Dispatchers /\ Renders' = Renders /\ Elements' = Elements
      /\ DecElements' = DecElements /\ VppElements' = VppElements
      /\ EncElements' = EncElements /\ DisElements' = DisElements
      /\ RenderElements' = RenderElements
  BY DEF Decs, Vpps, Detached, Encs, Dispatchers, Renders, Elements, DecElements,
         VppElements, EncElements, DisElements, RenderElements, OfKind
<1>2. OwnedElements' = OwnedElements /\ \A l : MayLink(l)' <=> MayLink(l)
  BY <1>1 DEF OwnedElements, MayLink
<1>3. ListInv'
  BY <1>1 DEF GInv, ListInv
<1>4. PairInv'
  BY <1>1 DEF GInv, PairInv
<1>5. LiveInv'
  BY <1>1, <1>2 DEF GInv, LiveInv
<1>6. LinkInv'
  BY <1>1, <1>2 DEF GInv, LinkInv
<1>7. EndsInv'
  BY <1>1 DEF GInv, EndsInv, Nothing
<1> QED BY <1>3, <1>4, <1>5, <1>6, <1>7 DEF GInv

\* No decoder or one more in the list and the map; VPPs likewise.
DecGrowth(ND) ==
  \/ ND = {} /\ UNCHANGED <<dec_list_, dec_dis_map_>>
  \/ \E d \in DecElements' \ Elements :
       /\ ND = {d} /\ d + 1 \in DisElements'
       /\ dec_list_' = Append(dec_list_, d)
       /\ dec_dis_map_' = Assign(dec_dis_map_, d, d + 1)

VppGrowth(NV) ==
  \/ NV = {} /\ UNCHANGED <<vpp_list_, vpp_dis_map_>>
  \/ \E v \in VppElements' \ Elements :
       /\ NV = {v} /\ v + 1 \in DisElements'
       /\ vpp_list_' = Append(vpp_list_, v)
       /\ vpp_dis_map_' = Assign(vpp_dis_map_, v, v + 1)

LEMMA ListsGrow ==
  ASSUME ListInv, kind' \in Seq(ElementTypes),
         DecElements \subseteq DecElements', VppElements \subseteq VppElements',
         DisElements \subseteq DisElements',
         NEW ND, DecGrowth(ND), NEW NV, VppGrowth(NV),
         del_dec_list_' \in {del_dec_list_, << >>}
  PROVE  /\ ListInv' /\ Decs' = Decs \cup ND /\ Vpps' = Vpps \cup NV
         /\ Detached' \subseteq Detached
         /\ del_dec_list_' = << >> => Detached' = {}
         /\ del_dec_list_' = del_dec_list_ => Detached' = Detached
<1>1. ListFacts /\ Decs \subseteq Elements /\ Vpps \subseteq Elements /\ Elements \subseteq Nat
  BY ListsAreSets DEF ListFacts, KindFacts
<1>2. KindFacts'
  <2>1. (kind \in Seq(ElementTypes) => KindFacts)'
    BY KindsDiffer, PTL
  <2> QED BY <2>1
<1>3. /\ dec_list_' \in Seq(DecElements') /\ IsInjective(dec_list_') /\ Decs' = Decs \cup ND
      /\ dec_dis_map_' = [d \in Decs' |-> d + 1]
      /\ \A e \in Decs' : e + 1 \in DisElements'
      /\ ND \cap Elements = {}
  <2>1. CASE ND = {} /\ UNCHANGED <<dec_list_, dec_dis_map_>>
    <3>1. dec_list_' \in Seq(DecElements')
      BY <2>1, SeqMonotonic DEF ListInv
    <3> QED BY <2>1, <3>1 DEF ListInv, Decs
  <2>2. CASE ~ (ND = {} /\ UNCHANGED <<dec_list_, dec_dis_map_>>)
    <3>0. PICK d \in DecElements' \ Elements :
            /\ ND = {d} /\ d + 1 \in DisElements'
            /\ dec_list_' = Append(dec_list_, d)
            /\ dec_dis_map_' = Assign(dec_dis_map_, d, d + 1)
      BY <2>2 DEF DecGrowth
    <3>1. d \notin Decs /\ d \in Nat /\ Decs \in SUBSET Nat
      BY <1>1, <1>2, <3>0 DEF KindFacts
    <3>2. /\ dec_list_' \in Seq(DecElements') /\ Decs' = Decs \cup {d}
          /\ IsInjective(dec_list_')
      <4>1. dec_list_ \in Seq(DecElements) /\ IsInjective(dec_list_) /\ d \notin ToSet(dec_list_)
        BY <3>1 DEF ListInv, Decs
      <4>2. d \in DecElements' /\ dec_list_ \in Seq(DecElements')
        BY <3>0, <4>1, SeqMonotonic
      <4>3. /\ Append(dec_list_, d) \in Seq(DecElements')
            /\ ToSet(Append(dec_list_, d)) = ToSet(dec_list_) \cup {d}
            /\ IsInjective(Append(dec_list_, d))
        BY ONLY <4>1, <4>2, ListGrows
      <4> QED BY <3>0, <4>3 DEF Decs
    <3>3. dec_dis_map_' = [e \in Decs' |-> e + 1]
      BY <3>0, <3>1, <3>2, MapsFollow DEF ListInv
    <3> QED BY <1>1, <3>0, <3>2, <3>3 DEF ListInv
  <2> QED BY <2>1, <2>2
<1>4. /\ vpp_list_' \in Seq(VppElements') /\ IsInjective(vpp_list_')
      /\ Vpps' = Vpps \cup NV
      /\ vpp_dis_map_' = [v \in Vpps' |-> v + 1]
      /\ \A e \in Vpps' : e + 1 \in DisElements'
  <2>1. CASE NV = {} /\ UNCHANGED <<vpp_list_, vpp_dis_map_>>
    <3>1. vpp_list_' \in Seq(VppElements')
      BY <2>1, SeqMonotonic DEF ListInv
    <3> QED BY <2>1, <3>1 DEF ListInv, Vpps
  <2>2. CASE ~ (NV = {} /\ UNCHANGED <<vpp_list_, vpp_dis_map_>>)
    <3>0. PICK v \in VppElements' \ Elements :
            /\ NV = {v} /\ v + 1 \in DisElements'
            /\ vpp_list_' = Append(vpp_list_, v)
            /\ vpp_dis_map_' = Assign(vpp_dis_map_, v, v + 1)
      BY <2>2 DEF VppGrowth
    <3>1. v \notin Vpps /\ v \in Nat /\ Vpps \in SUBSET Nat
      BY <1>1, <1>2, <3>0 DEF KindFacts
    <3>2. /\ vpp_list_' \in Seq(VppElements') /\ Vpps' = Vpps \cup {v}
          /\ IsInjective(vpp_list_')
      <4>1. vpp_list_ \in Seq(VppElements) /\ IsInjective(vpp_list_) /\ v \notin ToSet(vpp_list_)
        BY <3>1 DEF ListInv, Vpps
      <4>2. v \in VppElements' /\ vpp_list_ \in Seq(VppElements')
        BY <3>0, <4>1, SeqMonotonic
      <4>3. /\ Append(vpp_list_, v) \in Seq(VppElements')
            /\ ToSet(Append(vpp_list_, v)) = ToSet(vpp_list_) \cup {v}
            /\ IsInjective(Append(vpp_list_, v))
        BY ONLY <4>1, <4>2, ListGrows
      <4> QED BY <3>0, <4>3 DEF Vpps
    <3>3. vpp_dis_map_' = [e \in Vpps' |-> e + 1]
      BY <3>0, <3>1, <3>2, MapsFollow DEF ListInv
    <3> QED BY <1>1, <3>0, <3>2, <3>3 DEF ListInv
  <2> QED BY <2>1, <2>2
<1>5. /\ del_dec_list_' \in Seq(DecElements') /\ Detached' \subseteq Detached
      /\ del_dec_list_' = << >> => Detached' = {}
      /\ del_dec_list_' = del_dec_list_ => Detached' = Detached
  <2>1. CASE del_dec_list_' = << >>
    BY <2>1 DEF Detached, ToSet
  <2>2. CASE del_dec_list_' = del_dec_list_
    <3>1. del_dec_list_' \in Seq(DecElements')
      BY <2>2, SeqMonotonic DEF ListInv
    <3> QED BY <2>2, <3>1 DEF Detached, ToSet
  <2> QED BY <2>1, <2>2
<1>6. Decs' \cap Detached' = {}
  <2>1. Detached \subseteq Elements
    BY <1>1 DEF ListFacts, KindFacts
  <2> QED BY <1>3, <1>5, <2>1 DEF ListInv
<1> QED BY <1>3, <1>4, <1>5, <1>6 DEF ListInv

-----------------------------------------------------------------------------
(* The calls that attach. *)

LEMMA RefusalsKeep ==
  ASSUME GInv, Refuse, UNCHANGED calls \/ calls' = calls + 1
  PROVE  GInv'
<1>1. /\ UNCHANGED <<heap, workers, shape, del_dec_list_, drivers, xcoder, lost>>
      /\ asked' = {}
  BY DEF Refuse, Answer
<1>2. calls' \in Nat /\ (calls' = 0 => calls = 0)
  BY DEF GInv, EndsInv
<1>3. ThreadsFollowTheTranscoder'
  BY <1>1 DEF GInv, ThreadsFollowTheTranscoder, Listed, Encs, workers, shape
<1> QED BY <1>1, <1>2, <1>3, Keeps DEF heap, workers, shape, drivers, GInv, EndsInv

LEMMA AttachInputKeeps ==
  ASSUME GInv, ~xcoder.cleaned, UNCHANGED calls \/ calls' = calls + 1,
         NEW vpp, NEW codec, AttachInputDo(vpp, codec)
  PROVE  GInv'
<1> DEFINE dec == Len(kind) + 1
           dis == dec + 1
           reclaimed == live \ ToSet(del_dec_list_)
           targets == IF vpp = Null THEN ToSet(vpp_list_) ELSE {vpp}
           type == DecElement("AttachInput", codec)
<1>1. CASE Refuse
  BY <1>1, RefusalsKeep
<1>2. ASSUME xcoder.done_init_, del_dec_list_' = << >>, live' = reclaimed, asked' = {},
             UNCHANGED <<kind, workers, shape, xcoder, lost>>
      PROVE  GInv'
  <2>1. ListInv' /\ Decs' = Decs /\ Vpps' = Vpps /\ Detached' = {}
    <3>1. /\ DecElements' = DecElements /\ VppElements' = VppElements
          /\ DisElements' = DisElements
      BY <1>2 DEF DecElements, VppElements, DisElements, OfKind, Elements
    <3>2. DecGrowth({}) /\ VppGrowth({}) /\ kind' \in Seq(ElementTypes)
      BY <1>2 DEF DecGrowth, VppGrowth, shape, GInv, ListInv
    <3> QED BY <1>2, <3>1, <3>2, ListsGrow, ZenonT(30) DEF GInv
  <2>2. Growth({}, {}, {}, {}, {}, {})
    <3>1. calls' \in Nat \ {0}
      BY <1>2 DEF GInv, EndsInv
    <3>2. /\ Elements' = Elements /\ EncElements' = EncElements
          /\ RenderElements' = RenderElements /\ Renders' = Renders
      BY <1>2 DEF EncElements, RenderElements, OfKind, Elements, Renders
    <3>3. live' = live \ (Detached \ Detached')
      BY <1>2, <2>1 DEF Detached
    <3> QED
      BY <1>2, <2>1, <3>1, <3>2, <3>3 DEF Growth, workers, shape, GInv, EndsInv
  <2> QED BY <2>1, <2>2, Grows
<1>3. ASSUME xcoder.done_init_, del_dec_list_' = << >>,
             UNCHANGED <<vpp_list_, vpp_dis_map_, enc_multimap_, xcoder, lost>>,
             ~AttachInputRefused(vpp), type # "NULL",
             kind' = kind \o <<type, "DIS">>, live' = reclaimed \cup {dec, dis},
             dec_list_' = Append(dec_list_, dec),
             dec_dis_map_' = Assign(dec_dis_map_, dec, dis),
             links' = links \cup {<<dec, dis>>} \cup {<<dis, v>> : v \in targets},
             StartIfRunning({dec}, {dis}), asked' = {}
      PROVE  GInv'
  <2>1. /\ type \in DecTypes /\ <<type, "DIS">> \in Seq(ElementTypes)
        /\ kind \in Seq(ElementTypes)
    <3>1. type \in DecTypes
      BY <1>3, TypesAre
    <3>2. type \in ElementTypes /\ "DIS" \in ElementTypes
      BY <3>1 DEF ElementTypes
    <3> HIDE DEF type
    <3> QED BY <3>1, <3>2 DEF GInv, ListInv
  <2>2. /\ kind' \in Seq(ElementTypes) /\ Elements \subseteq Elements'
        /\ DecElements \subseteq DecElements' /\ VppElements \subseteq VppElements'
        /\ EncElements \subseteq EncElements' /\ DisElements \subseteq DisElements'
        /\ RenderElements \subseteq RenderElements'
        /\ Elements' \ Elements = {dec, dis}
        /\ dec \in DecElements' /\ dis \in DisElements'
    <3> DEFINE types == <<type, "DIS">>
    <3>1. Len(types) = 2 /\ types[1] = type /\ types[2] = "DIS" /\ 1 .. 2 = {1, 2}
      OBVIOUS
    <3> HIDE DEF types
    <3>2. kind' = kind \o types /\ types \in Seq(ElementTypes)
      BY <1>3, <2>1 DEF types
    <3>3. dis = Len(kind) + 2
      BY <2>1
    <3> QED BY <2>1, <3>1, <3>2, <3>3, Created
  <2>3. ListInv' /\ Decs' = Decs \cup {dec} /\ Vpps' = Vpps /\ Detached' = {}
    <3>1. DecGrowth({dec}) /\ VppGrowth({})
      BY <1>3, <2>2 DEF DecGrowth, VppGrowth
    <3>2. ListInv /\ del_dec_list_' \in {del_dec_list_, << >>} /\ del_dec_list_' = << >>
      BY <1>3 DEF GInv
    <3>3. Vpps \cup {} = Vpps
      OBVIOUS
    <3> HIDE DEF dec
    <3> QED BY ONLY <2>2, <3>1, <3>2, <3>3, ListsGrow
  <2>4. targets \subseteq Vpps /\ Vpps \subseteq Elements
    BY <1>3, ListsAreSets DEF AttachInputRefused, Vpps, GInv, ListFacts, KindFacts
  <2> DEFINE NL == {<<dec, dis>>} \cup {<<dis, v>> : v \in targets}
  <2>5. \A l \in NL : l \in Elements' \X Elements' /\ MayLink(l)'
    <3>1. dec \in Decs' /\ dis = dec + 1 /\ targets \subseteq Vpps' /\ targets \subseteq Elements'
      BY <2>2, <2>3, <2>4
    <3> HIDE DEF dec, dis, targets
    <3>2. ASSUME NEW l, l = <<dec, dis>> PROVE l \in Elements' \X Elements' /\ MayLink(l)'
      BY <2>2, <3>1, <3>2 DEF MayLink
    <3>3. ASSUME NEW l, NEW v \in targets, l = <<dis, v>>
          PROVE  l \in Elements' \X Elements' /\ MayLink(l)'
      <4>1. l[1] = dec + 1 /\ l[2] \in Vpps' /\ l \in Elements' \X Elements'
        BY <2>2, <3>1, <3>3
      <4> QED BY <3>1, <4>1 DEF MayLink
    <3> QED BY <3>2, <3>3
  <2>6. Growth({dec}, {}, {}, {}, NL, {})
    <3>1. calls' \in Nat \ {0}
      BY <1>3 DEF GInv, EndsInv
    <3>2. Renders' = Renders
      BY <1>3 DEF Renders
    <3>3. live' = (live \ (Detached \ Detached')) \cup {dec} \cup {e + 1 : e \in {dec}}
      BY <1>3, <2>3 DEF Detached
    <3>4. threads' = IF xcoder.is_running_ THEN threads \cup {dec} ELSE threads
      BY <1>3 DEF StartIfRunning, workers
    <3>5. links' = links \cup NL /\ <<dec, dec + 1>> \in NL
      BY <1>3
    <3> HIDE DEF NL, dec, dis
    <3> QED
      BY <1>3, <2>2, <2>3, <2>5, <3>1, <3>2, <3>3, <3>4, <3>5, ZenonT(30) DEF Growth, GInv, EndsInv
  <2> QED BY <2>3, <2>6, Grows
<1> QED
  BY <1>1, <1>2, <1>3 DEF AttachInputDo, Answer, shape

LEMMA JoinIs ==
  ASSUME NEW S, NEW s \in Seq(S), NEW t \in Seq(S), NEW u \in Seq(S),
         Len(u) = Len(s) + Len(t), \A i \in 1 .. Len(s) : u[i] = s[i],
         \A i \in 1 .. Len(t) : u[Len(s) + i] = t[i]
  PROVE  s \o t = u
<1>1. /\ s \o t \in Seq(S) /\ Len(s \o t) = Len(s) + Len(t) /\ Len(s) \in Nat /\ Len(t) \in Nat
      /\ \A i \in 1 .. Len(s) + Len(t) : (s \o t)[i] = IF i <= Len(s) THEN s[i] ELSE t[i - Len(s)]
  BY ConcatProperties
<1>2. ASSUME NEW i \in 1 .. Len(s) + Len(t) PROVE (s \o t)[i] = u[i]
  <2>1. CASE i <= Len(s)
    BY <1>1, <2>1
  <2>2. CASE ~ (i <= Len(s))
    <3>1. i - Len(s) \in 1 .. Len(t) /\ Len(s) + (i - Len(s)) = i
      BY <1>1, <2>2
    <3>2. u[i] = t[i - Len(s)]
      BY <3>1
    <3> QED BY <1>1, <2>2, <3>2
  <2> QED BY <2>1, <2>2
<1> QED BY <1>1, <1>2, SeqEqual

LEMMA JoinTwoOne ==
  ASSUME NEW a, NEW b, NEW c
  PROVE  <<a, b>> \o <<c>> = <<a, b, c>>
<1> DEFINE S == {a, b, c}
           s == <<a, b>>
           t == <<c>>
           u == <<a, b, c>>
<1>1. /\ Len(s) = 2 /\ Len(t) = 1 /\ Len(u) = 3 /\ 2 + 1 = 3
      /\ s \in Seq(S) /\ t \in Seq(S) /\ u \in Seq(S)
  OBVIOUS
<1>2. /\ \A i \in 1 .. 2 : u[i] = s[i]
      /\ \A i \in 1 .. 1 : u[2 + i] = t[i]
  OBVIOUS
<1> HIDE DEF s, t, u, S
<1>3. /\ Len(u) = Len(s) + Len(t) /\ \A i \in 1 .. Len(s) : u[i] = s[i]
      /\ \A i \in 1 .. Len(t) : u[Len(s) + i] = t[i]
      /\ s \in Seq(S) /\ t \in Seq(S) /\ u \in Seq(S)
  BY <1>1, <1>2
<1>4. s \o t = u
  BY ONLY <1>3, JoinIs
<1> QED BY <1>4 DEF s, t, u

LEMMA JoinTwoTwo ==
  ASSUME NEW a, NEW b, NEW c, NEW d
  PROVE  <<a, b>> \o <<c, d>> = <<a, b, c, d>>
<1> DEFINE S == {a, b, c, d}
           s == <<a, b>>
           t == <<c, d>>
           u == <<a, b, c, d>>
<1>1. /\ Len(s) = 2 /\ Len(t) = 2 /\ Len(u) = 4 /\ 2 + 2 = 4
      /\ s \in Seq(S) /\ t \in Seq(S) /\ u \in Seq(S)
  OBVIOUS
<1>2. /\ \A i \in 1 .. 2 : u[i] = s[i]
      /\ \A i \in 1 .. 2 : u[2 + i] = t[i]
  OBVIOUS
<1> HIDE DEF s, t, u, S
<1>3. /\ Len(u) = Len(s) + Len(t) /\ \A i \in 1 .. Len(s) : u[i] = s[i]
      /\ \A i \in 1 .. Len(t) : u[Len(s) + i] = t[i]
      /\ s \in Seq(S) /\ t \in Seq(S) /\ u \in Seq(S)
  BY <1>1, <1>2
<1>4. s \o t = u
  BY ONLY <1>3, JoinIs
<1> QED BY <1>4 DEF s, t, u

LEMMA JoinThreeTwo ==
  ASSUME NEW a, NEW b, NEW c, NEW d, NEW e
  PROVE  <<a, b, c>> \o <<d, e>> = <<a, b, c, d, e>>
<1> DEFINE S == {a, b, c, d, e}
           s == <<a, b, c>>
           t == <<d, e>>
           u == <<a, b, c, d, e>>
<1>1. /\ Len(s) = 3 /\ Len(t) = 2 /\ Len(u) = 5 /\ 3 + 2 = 5
      /\ s \in Seq(S) /\ t \in Seq(S) /\ u \in Seq(S)
  OBVIOUS
<1>2. /\ \A i \in 1 .. 3 : u[i] = s[i]
      /\ \A i \in 1 .. 2 : u[3 + i] = t[i]
  OBVIOUS
<1> HIDE DEF s, t, u, S
<1>3. /\ Len(u) = Len(s) + Len(t) /\ \A i \in 1 .. Len(s) : u[i] = s[i]
      /\ \A i \in 1 .. Len(t) : u[Len(s) + i] = t[i]
      /\ s \in Seq(S) /\ t \in Seq(S) /\ u \in Seq(S)
  BY <1>1, <1>2
<1>4. s \o t = u
  BY ONLY <1>3, JoinIs
<1> QED BY <1>4 DEF s, t, u

LEMMA JoinFourOne ==
  ASSUME NEW a, NEW b, NEW c, NEW d, NEW e
  PROVE  <<a, b, c, d>> \o <<e>> = <<a, b, c, d, e>>
<1> DEFINE S == {a, b, c, d, e}
           s == <<a, b, c, d>>
           t == <<e>>
           u == <<a, b, c, d, e>>
<1>1. /\ Len(s) = 4 /\ Len(t) = 1 /\ Len(u) = 5 /\ 4 + 1 = 5
      /\ s \in Seq(S) /\ t \in Seq(S) /\ u \in Seq(S)
  OBVIOUS
<1>2. /\ \A i \in 1 .. 4 : u[i] = s[i]
      /\ \A i \in 1 .. 1 : u[4 + i] = t[i]
  OBVIOUS
<1> HIDE DEF s, t, u, S
<1>3. /\ Len(u) = Len(s) + Len(t) /\ \A i \in 1 .. Len(s) : u[i] = s[i]
      /\ \A i \in 1 .. Len(t) : u[Len(s) + i] = t[i]
      /\ s \in Seq(S) /\ t \in Seq(S) /\ u \in Seq(S)
  BY <1>1, <1>2
<1>4. s \o t = u
  BY ONLY <1>3, JoinIs
<1> QED BY <1>4 DEF s, t, u

LEMMA JoinEmpty ==
  ASSUME NEW a, NEW b
  PROVE  << >> \o <<a>> = <<a>> /\ <<a, b>> \o << >> = <<a, b>>
BY <<a>> \in Seq({a}), <<a, b>> \in Seq({a, b}), ConcatEmptySeq

\* Elements that are created and then in no list.
LEMMA LosingKeeps ==
  ASSUME GInv, ~xcoder.cleaned, calls' = calls + 1, NEW types \in Seq(ElementTypes),
         Create(types), lost' = lost \cup (Len(kind) + 1 .. Len(kind) + Len(types)),
         UNCHANGED <<workers, shape, del_dec_list_, xcoder>>, asked' = {}
  PROVE  GInv'
<1> DEFINE Dead == Len(kind) + 1 .. Len(kind) + Len(types)
<1>1. /\ kind' \in Seq(ElementTypes) /\ Elements \subseteq Elements'
      /\ DecElements \subseteq DecElements' /\ VppElements \subseteq VppElements'
      /\ EncElements \subseteq EncElements' /\ DisElements \subseteq DisElements'
      /\ RenderElements \subseteq RenderElements'
      /\ Elements' \ Elements = Dead
  BY Created DEF Create, GInv, ListInv
<1>2. live' = live \cup Dead
  BY DEF Create
<1> HIDE DEF Dead
<1>3. ListInv' /\ Decs' = Decs /\ Vpps' = Vpps /\ Detached' = Detached
  <2>1. DecGrowth({}) /\ VppGrowth({})
    BY DEF DecGrowth, VppGrowth, shape
  <2>2. ListInv /\ del_dec_list_' \in {del_dec_list_, << >>} /\ del_dec_list_' = del_dec_list_
    BY DEF GInv
  <2>3. Decs \cup {} = Decs /\ Vpps \cup {} = Vpps
    OBVIOUS
  <2> QED BY ONLY <1>1, <2>1, <2>2, <2>3, ListsGrow
<1>4. Growth({}, {}, {}, {}, {}, Dead)
  <2>1. calls' \in Nat \ {0} /\ Renders' = Renders
    BY DEF GInv, EndsInv, Renders
  <2>2. lost' = lost \cup Dead
    BY DEF Dead
  <2> QED BY <1>1, <1>2, <1>3, <2>1, <2>2 DEF Growth, workers, shape, GInv, EndsInv
<1> QED BY <1>3, <1>4, Grows

\* A call that fails with the graph as it was.
LEMMA FailingKeeps ==
  ASSUME GInv, ~xcoder.cleaned, calls' = calls + 1,
         UNCHANGED <<heap, workers, shape, del_dec_list_, xcoder, lost>>, asked' = {}
  PROVE  GInv'
<1>1. calls' \in Nat /\ calls' # 0
  BY DEF GInv, EndsInv
<1>2. ThreadsFollowTheTranscoder'
  BY DEF GInv, ThreadsFollowTheTranscoder, Listed, Encs, workers, shape
<1> QED BY <1>1, <1>2, Keeps DEF heap, workers, shape, GInv, EndsInv

LEMMA AttachVppKeeps ==
  ASSUME GInv, NEW dcodec, NEW ecodec, NEW fei, AttachVpp(dcodec, ecodec, fei)
  PROVE  GInv'
<1> DEFINE n == Len(kind)
           vpp == n + 1
           dec == n + 4
           enctype == EncElement(ecodec, fei)
           dectype == DecElement("AttachVpp", dcodec)
           made == <<"VPP", "DIS">> \o (IF enctype = "NULL" THEN << >> ELSE <<enctype>>)
<1>1. calls' = calls + 1 /\ ~xcoder.cleaned
  BY DEF AttachVpp, Enter
<1>2. /\ enctype \in EncTypes \cup {"NULL"} /\ dectype \in DecTypes \cup {"NULL"}
      /\ "NULL" \notin ElementTypes /\ n \in Nat /\ kind \in Seq(ElementTypes)
  <2>1. n \in Nat /\ kind \in Seq(ElementTypes)
    BY DEF GInv, ListInv
  <2> QED BY <2>1, TypesAre
<1> HIDE DEF enctype, dectype
<1>3. CASE Refuse
  BY <1>1, <1>3, RefusalsKeep
<1>4. ASSUME UNCHANGED <<heap, workers, shape, lost, del_dec_list_, xcoder>>, asked' = {}
      PROVE  GInv'
  BY <1>1, <1>4, FailingKeeps
<1>5. ASSUME Create(made), lost' = lost \cup (vpp .. vpp + Len(made) - 1), asked' = {},
             UNCHANGED <<workers, shape, del_dec_list_, xcoder>>
      PROVE  GInv'
  <2>1. made \in Seq(ElementTypes) /\ Len(made) \in Nat
    <3>1. "VPP" \in ElementTypes /\ "DIS" \in ElementTypes
      BY DEF ElementTypes
    <3>2. enctype # "NULL" => enctype \in ElementTypes
      BY <1>2 DEF ElementTypes
    <3>3. made = IF enctype = "NULL" THEN <<"VPP", "DIS">> ELSE <<"VPP", "DIS", enctype>>
      BY JoinEmpty, JoinTwoOne
    <3> HIDE DEF made
    <3> QED BY <3>1, <3>2, <3>3
  <2> HIDE DEF made
  <2>2. vpp .. vpp + Len(made) - 1 = n + 1 .. n + Len(made)
    BY <1>2, <2>1
  <2> QED BY <1>1, <1>5, <2>1, <2>2, LosingKeeps
<1>6. ASSUME ~xcoder.m_bRender_, xcoder.done_init_, enctype # "NULL", dectype # "NULL",
             Create(made \o <<dectype, "DIS">>),
             dec_list_' = Append(dec_list_, dec),
             dec_dis_map_' = Assign(dec_dis_map_, dec, dec + 1),
             vpp_list_' = Append(vpp_list_, vpp),
             vpp_dis_map_' = Assign(vpp_dis_map_, vpp, vpp + 1),
             enc_multimap_' = enc_multimap_ \cup {<<vpp, vpp + 2>>},
             links' = links \cup {<<dec, dec + 1>>, <<dec + 1, vpp>>,
                                  <<vpp, vpp + 1>>, <<vpp + 1, vpp + 2>>},
             StartIfRunning({vpp + 2, vpp, dec}, {vpp + 1, dec + 1}),
             asked' = {}, UNCHANGED <<del_dec_list_, xcoder, lost>>
      PROVE  GInv'
  <2> DEFINE types == <<"VPP", "DIS", enctype, dectype, "DIS">>
             enc == n + 3
  <2>1. made \o <<dectype, "DIS">> = types
    <3>1. made = <<"VPP", "DIS", enctype>>
      BY <1>6, JoinTwoOne
    <3>2. <<"VPP", "DIS", enctype>> \o <<dectype, "DIS">> = types
      BY JoinThreeTwo
    <3> HIDE DEF made, types
    <3> QED BY ONLY <3>1, <3>2
  <2>2. types \in Seq(ElementTypes) /\ dectype \in DecTypes /\ enctype \in EncTypes
    BY <1>2, <1>6 DEF ElementTypes
  <2>3. /\ Len(types) = 5 /\ types[1] = "VPP" /\ types[2] = "DIS" /\ types[3] = enctype
        /\ types[4] = dectype /\ types[5] = "DIS" /\ 1 .. 5 = {1, 2, 3, 4, 5}
    OBVIOUS
  <2>4. kind' = kind \o types /\ live' = live \cup (n + 1 .. n + 5)
    <3>1. Create(types)
      BY <1>6, <2>1
    <3> QED BY <2>3, <3>1 DEF Create
  <2> HIDE DEF types
  <2>5. /\ kind' \in Seq(ElementTypes) /\ Elements \subseteq Elements'
        /\ DecElements \subseteq DecElements' /\ VppElements \subseteq VppElements'
        /\ EncElements \subseteq EncElements' /\ DisElements \subseteq DisElements'
        /\ RenderElements \subseteq RenderElements'
        /\ Elements' \ Elements = {n + 1, n + 2, n + 3, n + 4, n + 5}
        /\ vpp \in VppElements' /\ vpp + 1 \in DisElements' /\ enc \in EncElements'
        /\ dec \in DecElements' /\ dec + 1 \in DisElements'
    <3>1. \A i \in 1 .. Len(types) : i = 1 \/ i = 2 \/ i = 3 \/ i = 4 \/ i = 5
      BY <2>3
    <3>2. {n + i : i \in 1 .. Len(types)} = {n + 1, n + 2, n + 3, n + 4, n + 5}
      BY <2>3
    <3>3. n + 1 + 1 = n + 2 /\ n + 4 + 1 = n + 5
      BY <1>2
    <3> QED BY <1>2, <2>2, <2>3, <2>4, <3>2, <3>3, Created
  <2>6. /\ vpp + 1 = n + 2 /\ vpp + 2 = enc /\ dec + 1 = n + 5
        /\ n + 1 .. n + 5 = {n + 1, n + 2, n + 3, n + 4, n + 5}
        /\ vpp # 0
    BY <1>2
  <2>7. ListInv' /\ Decs' = Decs \cup {dec} /\ Vpps' = Vpps \cup {vpp} /\ Detached' = Detached
    <3>1. DecGrowth({dec}) /\ VppGrowth({vpp})
      BY <1>6, <2>5 DEF DecGrowth, VppGrowth
    <3>2. ListInv /\ del_dec_list_' \in {del_dec_list_, << >>} /\ del_dec_list_' = del_dec_list_
      BY <1>6 DEF GInv
    <3> HIDE DEF dec, vpp
    <3> QED BY ONLY <2>5, <3>1, <3>2, ListsGrow
  <2> DEFINE NE == {<<vpp, enc>>}
             NL == {<<dec, dec + 1>>, <<dec + 1, vpp>>, <<vpp, vpp + 1>>, <<vpp + 1, enc>>}
  <2>8. ASSUME NEW l \in NL
        PROVE  l \in Elements' \X Elements' /\ MayLink(l)'
    <3>1. dec \in Decs' /\ vpp \in Vpps' /\ <<vpp, enc>> \in enc_multimap_'
      BY <1>6, <2>6, <2>7
    <3>2. {dec, dec + 1, vpp, vpp + 1, enc} \subseteq Elements'
      BY <2>5, <2>6
    <3> HIDE DEF dec, vpp, enc
    <3> QED BY <3>1, <3>2 DEF MayLink
  <2>9. Growth({dec}, {vpp}, NE, {}, NL, {})
    <3>1. calls' \in Nat \ {0} /\ Renders' = Renders
      BY <1>1, <1>6 DEF GInv, EndsInv, Renders
    <3>2. live' = live \cup {dec} \cup {vpp} \cup {dec + 1, vpp + 1} \cup {enc}
      BY <2>4, <2>6
    <3>3. {e + 1 : e \in {dec} \cup {vpp}} = {dec + 1, vpp + 1} /\ {p[2] : p \in NE} = {enc}
      OBVIOUS
    <3>4. threads' = IF xcoder.is_running_ THEN threads \cup {dec} \cup {vpp} \cup {enc} ELSE threads
      BY <1>6, <2>6 DEF StartIfRunning, workers
    <3>5. links' = links \cup NL /\ enc_multimap_' = enc_multimap_ \cup NE
      BY <1>6, <2>6
    <3>6. dec \in Elements' \ Elements /\ vpp \in Elements' \ Elements /\ enc \in Elements' \ Elements
      BY <2>5, <2>6
    <3>7. NE \subseteq (Vpps' \cup {Null}) \X (EncElements' \ Elements)
      BY <2>5, <2>7, <3>6
    <3>8. /\ <<dec, dec + 1>> \in NL /\ <<vpp, vpp + 1>> \in NL
          /\ \A p \in NE : <<p[1] + 1, p[2]>> \in NL
          /\ <<vpp, enc>> \in NE /\ \A p, q \in NE : p = q
      OBVIOUS
    <3> HIDE DEF NL, NE, dec, vpp, enc
    <3> QED
      BY <1>1, <1>6, <2>5, <2>7, <2>8, <3>1, <3>2, <3>3, <3>4, <3>5, <3>6, <3>7, <3>8
         DEF Growth, GInv, EndsInv
  <2> QED BY <2>7, <2>9, Grows
<1> QED
  BY <1>3, <1>4, <1>5, <1>6 DEF AttachVpp, Answer, enctype, dectype

LEMMA AttachOutputKeeps ==
  ASSUME GInv, NEW vpp, NEW ecodec, NEW fei, AttachOutput(vpp, ecodec, fei)
  PROVE  GInv'
<1> DEFINE enc == Len(kind) + 1
           type == EncElement(ecodec, fei)
<1>1. calls' = calls + 1 /\ ~xcoder.cleaned
      /\ UNCHANGED <<del_dec_list_, xcoder, lost, dec_list_, vpp_list_, dec_dis_map_,
                     vpp_dis_map_>>
  BY DEF AttachOutput, Enter
<1>2. ASSUME UNCHANGED <<heap, workers, enc_multimap_, links>>, asked' = {}
      PROVE  GInv'
  BY <1>1, <1>2, FailingKeeps DEF shape
<1>3. ASSUME xcoder.done_init_, ~xcoder.m_bRender_, type # "NULL", vpp \in ToSet(vpp_list_),
             Create(<<type>>), enc_multimap_' = enc_multimap_ \cup {<<vpp, enc>>},
             links' = links \cup {<<vpp_dis_map_[vpp], enc>>},
             StartIfRunning({enc}, {}), asked' = {}
      PROVE  GInv'
  <2>1. /\ type \in EncTypes /\ Len(kind) \in Nat /\ kind \in Seq(ElementTypes)
        /\ type \in ElementTypes
    <3>1. type \in EncTypes
      BY <1>3, TypesAre
    <3> HIDE DEF type
    <3> QED BY <3>1 DEF ElementTypes, GInv, ListInv
  <2> DEFINE types == <<type>>
  <2> HIDE DEF type
  <2>2. Len(types) = 1 /\ types[1] = type /\ types \in Seq(ElementTypes) /\ 1 .. 1 = {1}
    BY <2>1
  <2>3. kind' = kind \o types /\ live' = live \cup (Len(kind) + 1 .. Len(kind) + 1)
    BY <1>3, <2>2 DEF Create
  <2> HIDE DEF types
  <2>4. /\ kind' \in Seq(ElementTypes) /\ Elements \subseteq Elements'
        /\ DecElements \subseteq DecElements' /\ VppElements \subseteq VppElements'
        /\ EncElements \subseteq EncElements' /\ DisElements \subseteq DisElements'
        /\ RenderElements \subseteq RenderElements'
        /\ Elements' \ Elements = {enc} /\ enc \in EncElements'
    BY <2>1, <2>2, <2>3, Created
  <2>5. live' = live \cup {enc}
    BY <2>1, <2>3
  <2> HIDE DEF enc
  <2>6. ListInv' /\ Decs' = Decs /\ Vpps' = Vpps /\ Detached' = Detached
    <3>1. DecGrowth({}) /\ VppGrowth({})
      BY <1>1 DEF DecGrowth, VppGrowth
    <3>2. ListInv /\ del_dec_list_' \in {del_dec_list_, << >>} /\ del_dec_list_' = del_dec_list_
      BY <1>1 DEF GInv
    <3>3. Decs \cup {} = Decs /\ Vpps \cup {} = Vpps
      OBVIOUS
    <3> QED BY ONLY <2>4, <3>1, <3>2, <3>3, ListsGrow
  <2>7. /\ vpp \in Vpps /\ vpp_dis_map_[vpp] = vpp + 1 /\ vpp + 1 \in Elements
        /\ vpp \in Elements /\ Elements \subseteq Nat
    BY <1>3, ListsAreSets DEF Vpps, GInv, ListInv, ListFacts, KindFacts
  <2> DEFINE NE == {<<vpp, enc>>}
             NL == {<<vpp + 1, enc>>}
  <2>8. ASSUME NEW l \in NL PROVE l \in Elements' \X Elements' /\ MayLink(l)'
    <3>1. l[1] = vpp + 1 /\ l[2] = enc /\ vpp \in Vpps' /\ <<vpp, enc>> \in enc_multimap_'
      BY <1>3, <2>6, <2>7
    <3>2. l \in Elements' \X Elements'
      BY <2>4, <2>7
    <3> QED BY <3>1, <3>2 DEF MayLink
  <2>9. Growth({}, {}, NE, {}, NL, {})
    <3>1. calls' \in Nat \ {0} /\ Renders' = Renders
      BY <1>1 DEF GInv, EndsInv, Renders
    <3>2. {p[2] : p \in NE} = {enc} /\ {e + 1 : e \in {} \cup {}} = {}
      OBVIOUS
    <3>3. threads' = IF xcoder.is_running_ THEN threads \cup {enc} ELSE threads
      BY <1>3 DEF StartIfRunning, workers
    <3>4. /\ enc_multimap_' = enc_multimap_ \cup NE /\ links' = links \cup NL
          /\ NE \subseteq (Vpps' \cup {Null}) \X (EncElements' \ Elements)
          /\ \A p \in NE : <<p[1] + 1, p[2]>> \in NL
          /\ \A p, q \in NE : p = q
      BY <1>3, <2>4, <2>6, <2>7
    <3> HIDE DEF NE, NL
    <3> QED
      BY <1>1, <1>3, <2>4, <2>5, <2>6, <2>8, <3>1, <3>2, <3>3, <3>4 DEF Growth, GInv, EndsInv
  <2> QED BY <2>6, <2>9, Grows
<1> QED
  BY <1>2, <1>3 DEF AttachOutput, Answer

LEMMA AttachVppOutputKeeps ==
  ASSUME GInv, NEW withVpp \in BOOLEAN, NEW ecodec, NEW fei,
         AttachVppOutput(withVpp, ecodec, fei)
  PROVE  GInv'
<1> DEFINE n == Len(kind)
           first == n + 1
           enc == IF withVpp THEN first + 2 ELSE first
           made == IF withVpp THEN <<"VPP", "DIS">> ELSE << >>
           type == EncElement(ecodec, fei)
<1>1. calls' = calls + 1 /\ ~xcoder.cleaned
  BY DEF AttachVppOutput, Enter
<1>2. /\ type \in EncTypes \cup {"NULL"} /\ "NULL" \notin ElementTypes
      /\ n \in Nat /\ kind \in Seq(ElementTypes)
  <2>1. n \in Nat /\ kind \in Seq(ElementTypes)
    BY DEF GInv, ListInv
  <2> QED BY <2>1, TypesAre
<1> HIDE DEF type
<1>3. CASE Refuse
  BY <1>1, <1>3, RefusalsKeep
<1>4. ASSUME UNCHANGED <<dec_list_, dec_dis_map_, del_dec_list_, xcoder>>,
             AttachVppOutputHalfway(withVpp, made, type, fei)
      PROVE  GInv'
  <2>1. /\ UNCHANGED <<workers, shape>> /\ asked' = {}
        /\ \/ UNCHANGED <<heap, lost>>
           \/ Create(made) /\ lost' = lost \cup (n + 1 .. n + Len(made))
    BY <1>4 DEF AttachVppOutputHalfway, Answer, shape
  <2>2. CASE UNCHANGED <<heap, lost>>
    BY <1>1, <1>4, <2>1, <2>2, FailingKeeps
  <2>3. CASE Create(made) /\ lost' = lost \cup (n + 1 .. n + Len(made))
    <3>1. made \in Seq(ElementTypes)
      <4>1. "VPP" \in ElementTypes /\ "DIS" \in ElementTypes
        BY DEF ElementTypes
      <4>2. <<"VPP", "DIS">> \in Seq(ElementTypes) /\ << >> \in Seq(ElementTypes)
        BY <4>1
      <4> QED BY <4>2
    <3> QED BY <1>1, <1>4, <2>1, <2>3, <3>1, LosingKeeps
  <2> QED BY <2>1, <2>2, <2>3
<1>5. ASSUME xcoder.done_init_, type # "NULL", Create(made \o <<type>>),
             UNCHANGED <<dec_list_, dec_dis_map_, del_dec_list_, xcoder, lost>>,
             vpp_list_' = IF withVpp THEN Append(vpp_list_, first) ELSE vpp_list_,
             vpp_dis_map_' = IF withVpp THEN Assign(vpp_dis_map_, first, first + 1)
                             ELSE vpp_dis_map_,
             enc_multimap_' = enc_multimap_ \cup {<<IF withVpp THEN first ELSE Null, enc>>},
             links' = links \cup {<<d, first>> : d \in Range(dec_dis_map_)}
                        \cup {<<e, e + 1>> : e \in first .. enc - 1},
             StartIfRunning({first, enc}, first + 1 .. enc - 1), asked' = {}
      PROVE  GInv'
  <2> DEFINE types == IF withVpp THEN <<"VPP", "DIS", type>> ELSE <<type>>
             NV == IF withVpp THEN {first} ELSE {}
             NE == {<<IF withVpp THEN first ELSE Null, enc>>}
             NL == {<<d, first>> : d \in Range(dec_dis_map_)}
                     \cup {<<e, e + 1>> : e \in first .. enc - 1}
             count == IF withVpp THEN 3 ELSE 1
  <2>1. made \o <<type>> = types
    BY JoinEmpty, JoinTwoOne
  <2>2. type \in EncTypes /\ types \in Seq(ElementTypes) /\ Len(types) = count
    <3>1. "VPP" \in ElementTypes /\ "DIS" \in ElementTypes
      BY DEF ElementTypes
    <3>2. type \in EncTypes /\ type \in ElementTypes
      BY <1>2, <1>5 DEF ElementTypes
    <3>3. /\ <<"VPP", "DIS", type>> \in Seq(ElementTypes) /\ Len(<<"VPP", "DIS", type>>) = 3
          /\ <<type>> \in Seq(ElementTypes) /\ Len(<<type>>) = 1
      BY <3>1, <3>2
    <3> QED BY <3>2, <3>3
  <2>3. /\ withVpp => /\ types[1] = "VPP" /\ types[2] = "DIS" /\ types[3] = type
                      /\ count = 3 /\ 1 .. count = {1, 2, 3}
        /\ ~withVpp => types[1] = type /\ count = 1 /\ 1 .. count = {1}
    OBVIOUS
  <2>4. kind' = kind \o types /\ live' = live \cup (n + 1 .. n + count)
    <3>1. Create(types)
      BY <1>5, <2>1
    <3> QED BY <2>2, <3>1 DEF Create
  <2>5. first \in Nat /\ first # 0 /\ enc = IF withVpp THEN n + 3 ELSE n + 1
    BY <1>2
  <2>6. /\ kind' \in Seq(ElementTypes) /\ Elements \subseteq Elements'
        /\ DecElements \subseteq DecElements' /\ VppElements \subseteq VppElements'
        /\ EncElements \subseteq EncElements' /\ DisElements \subseteq DisElements'
        /\ RenderElements \subseteq RenderElements'
        /\ Elements' \ Elements = n + 1 .. n + count
        /\ enc \in EncElements'
        /\ withVpp => first \in VppElements' /\ first + 1 \in DisElements'
    <3> HIDE DEF types, count
    <3>1. first + 1 = n + 2
      BY <1>2
    <3> HIDE DEF first
    <3>2. first = n + 1 /\ 1 \in 1 .. count
      BY <2>3 DEF first
    <3> HIDE DEF enc
    <3> QED BY <1>2, <2>2, <2>3, <2>4, <2>5, <3>1, <3>2, Created
  <2>7. /\ n + 1 .. n + count = IF withVpp THEN {first, first + 1, enc} ELSE {enc}
        /\ first .. enc - 1 = IF withVpp THEN {first, first + 1} ELSE {}
        /\ first + 1 + 1 = first + 2
    <3>1. /\ n + 1 .. n + 3 = {n + 1, n + 2, n + 3} /\ n + 1 .. n + 1 = {n + 1}
          /\ n + 1 .. n + 3 - 1 = {n + 1, n + 2} /\ n + 1 .. n + 1 - 1 = {}
          /\ n + 1 + 1 = n + 2 /\ n + 1 + 2 = n + 3
      BY <1>2
    <3> HIDE DEF n
    <3>2. CASE withVpp
      BY <3>1, <3>2
    <3>3. CASE ~withVpp
      BY <3>1, <3>3
    <3> QED BY <3>2, <3>3
  <2>8. ListFacts
    BY ListsAreSets DEF GInv
  <2>9. ListInv' /\ Decs' = Decs /\ Vpps' = Vpps \cup NV /\ Detached' = Detached
    <3>1. first \in Elements' \ Elements \/ ~withVpp
      BY <2>6, <2>7
    <3>2. DecGrowth({}) /\ VppGrowth(NV)
      BY <1>5, <2>6, <3>1 DEF DecGrowth, VppGrowth
    <3>3. ListInv /\ del_dec_list_' \in {del_dec_list_, << >>} /\ del_dec_list_' = del_dec_list_
      BY <1>5 DEF GInv
    <3>4. Decs \cup {} = Decs
      OBVIOUS
    <3> HIDE DEF NV
    <3> QED BY ONLY <2>6, <3>2, <3>3, <3>4, ListsGrow
  <2>10. ASSUME NEW l \in NL PROVE l \in Elements' \X Elements' /\ MayLink(l)'
    <3>1. CASE l \in {<<d, first>> : d \in Range(dec_dis_map_)}
      <4>1. PICK d \in Decs : l = <<d + 1, first>>
        BY <2>8, <3>1 DEF ListFacts
      <4>2. l[1] = d + 1 /\ l[2] = first /\ d \in Decs' /\ d + 1 \in Elements
        BY <2>8, <2>9, <4>1 DEF ListFacts, KindFacts
      <4>3. first \in Elements'
        BY <2>6, <2>7
      <4>4. first \in Vpps' \/ <<Null, first>> \in enc_multimap_'
        BY <1>5, <2>9
      <4> HIDE DEF first
      <4> QED BY <2>6, <4>1, <4>2, <4>3, <4>4 DEF MayLink
    <3>2. CASE withVpp /\ (l = <<first, first + 1>> \/ l = <<first + 1, first + 2>>)
      <4>1. first \in Vpps' /\ <<first, first + 2>> \in enc_multimap_'
        BY <1>5, <2>9, <3>2
      <4>2. {first, first + 1, first + 2} \subseteq Elements'
        BY <2>6, <2>7, <3>2
      <4> HIDE DEF first
      <4> QED BY <3>2, <4>1, <4>2 DEF MayLink
    <3> QED BY <2>7, <3>1, <3>2
  <2>11. Growth({}, NV, NE, {}, NL, {})
    <3>1. calls' \in Nat \ {0} /\ Renders' = Renders
      BY <1>1, <1>5 DEF GInv, EndsInv, Renders
    <3>2. /\ {p[2] : p \in NE} = {enc}
          /\ {e + 1 : e \in {} \cup NV} = IF withVpp THEN {first + 1} ELSE {}
      OBVIOUS
    <3>3. threads' = IF xcoder.is_running_ THEN threads \cup NV \cup {enc} ELSE threads
      BY <1>5 DEF StartIfRunning, workers
    <3>4. live' = live \cup NV \cup (IF withVpp THEN {first + 1} ELSE {}) \cup {enc}
      BY <2>4, <2>7
    <3>5. /\ enc_multimap_' = enc_multimap_ \cup NE /\ links' = links \cup NL
          /\ NV \subseteq Elements' \ Elements /\ enc \in Elements' \ Elements
      BY <1>5, <2>6, <2>7
    <3>6. NE \subseteq (Vpps' \cup {Null}) \X (EncElements' \ Elements)
      BY <2>6, <2>9, <3>5
    <3>7. /\ \A v \in NV : <<v, enc>> \in NE /\ <<v, v + 1>> \in NL
          /\ \A p \in NE : p[1] # Null => <<p[1] + 1, p[2]>> \in NL
          /\ \A p, q \in NE : p = q
      BY <2>7 DEF Null
    <3> HIDE DEF NE, NL, NV, first, enc
    <3> QED
      BY <1>1, <1>5, <2>6, <2>9, <2>10, <3>1, <3>2, <3>3, <3>4, <3>5, <3>6, <3>7
         DEF Growth, GInv, EndsInv
  <2> QED BY <2>9, <2>11, Grows
<1> QED
  BY <1>3, <1>4, <1>5 DEF AttachVppOutput, Answer, type

LEMMA EmptyMap == << >> = [d \in {} |-> d + 1]
OBVIOUS

\* Before Init there is nothing, and no element has a number.
LEMMA FirstCall ==
  ASSUME GInv, calls = 0
  PROVE  /\ dec_list_ = << >> /\ vpp_list_ = << >> /\ del_dec_list_ = << >>
         /\ Decs = {} /\ Vpps = {} /\ Detached = {} /\ Renders = {}
         /\ enc_multimap_ = {} /\ links = {} /\ live = {} /\ lost = {} /\ Elements = {}
         /\ kind = << >> /\ Len(kind) = 0 /\ kind \in Seq(ElementTypes)
         /\ dec_dis_map_ = << >> /\ vpp_dis_map_ = << >>
         /\ ~xcoder.done_init_ /\ ~xcoder.is_running_ /\ xcoder \in XcoderStates
<1>1. /\ Nothing /\ kind = << >> /\ lost = {} /\ ~xcoder.done_init_ /\ ~xcoder.is_running_
      /\ xcoder \in XcoderStates
  BY DEF GInv, EndsInv
<1>2. Decs = {} /\ Vpps = {} /\ Detached = {} /\ Encs = {}
  BY <1>1 DEF Nothing, Decs, Vpps, Detached, Encs, ToSet
<1>3. Len(kind) = 0 /\ Elements = {}
  BY <1>1 DEF Elements
<1>4. dec_dis_map_ = << >> /\ vpp_dis_map_ = << >>
  BY <1>2, EmptyMap DEF GInv, ListInv
<1>5. Dispatchers = {}
  BY <1>2, ListsAreSets DEF GInv, ListFacts
<1>6. live = {}
  BY <1>1, <1>2, <1>5 DEF GInv, LiveInv, OwnedElements, Nothing
<1> QED BY <1>1, <1>2, <1>3, <1>4, <1>6 DEF Nothing, GInv, ListInv

\* The first decoder and the first VPP.
LEMMA FirstLists ==
  ASSUME GInv, calls = 0, NEW types \in Seq(ElementTypes), kind' = kind \o types,
         NEW withDec \in BOOLEAN, NEW withVpp \in BOOLEAN,
         withDec => Len(types) >= 2 /\ types[1] \in DecTypes /\ types[2] = "DIS",
         withVpp => Len(types) >= 4 /\ types[3] = "VPP" /\ types[4] = "DIS",
         dec_list_' = IF withDec THEN << 1 >> ELSE << >>,
         dec_dis_map_' = IF withDec THEN [d \in {1} |-> 2] ELSE << >>,
         vpp_list_' = IF withVpp THEN << 3 >> ELSE << >>,
         vpp_dis_map_' = IF withVpp THEN [v \in {3} |-> 4] ELSE << >>,
         del_dec_list_' = del_dec_list_
  PROVE  /\ ListInv' /\ Detached' = {}
         /\ Decs' = IF withDec THEN {1} ELSE {}
         /\ Vpps' = IF withVpp THEN {3} ELSE {}
         /\ Elements' = 1 .. Len(types) /\ Len(types) \in Nat
         /\ \A i \in 1 .. Len(types) :
              /\ types[i] \in EncTypes => i \in EncElements'
              /\ types[i] = "RENDER" => i \in RenderElements'
<1> DEFINE ND == IF withDec THEN {1} ELSE {}
           NV == IF withVpp THEN {3} ELSE {}
<1>1. /\ dec_list_ = << >> /\ vpp_list_ = << >> /\ Decs = {} /\ Vpps = {} /\ Detached = {}
      /\ Elements = {} /\ Len(kind) = 0 /\ kind \in Seq(ElementTypes)
      /\ dec_dis_map_ = << >> /\ vpp_dis_map_ = << >>
  BY FirstCall
<1>2. /\ kind' \in Seq(ElementTypes) /\ DecElements \subseteq DecElements'
      /\ VppElements \subseteq VppElements' /\ DisElements \subseteq DisElements'
      /\ Elements' \ Elements = Len(kind) + 1 .. Len(kind) + Len(types)
      /\ \A i \in 1 .. Len(types) :
           /\ types[i] \in DecTypes => Len(kind) + i \in DecElements'
           /\ types[i] = "VPP" => Len(kind) + i \in VppElements'
           /\ types[i] \in EncTypes => Len(kind) + i \in EncElements'
           /\ types[i] = "DIS" => Len(kind) + i \in DisElements'
           /\ types[i] = "RENDER" => Len(kind) + i \in RenderElements'
  BY <1>1, Created
<1>3. Len(types) \in Nat /\ \A i \in 1 .. Len(types) : Len(kind) + i = i
  BY <1>1
<1>4. Elements' = 1 .. Len(types)
  BY <1>1, <1>2, <1>3
<1>5. Append(<< >>, 1) = << 1 >> /\ Append(<< >>, 3) = << 3 >>
  OBVIOUS
<1>6. Assign(<< >>, 1, 2) = [d \in {1} |-> 2] /\ Assign(<< >>, 3, 4) = [v \in {3} |-> 4]
  BY DEF Assign
<1>7. DecGrowth(ND)
  <2>1. CASE ~withDec
    BY <1>1, <2>1 DEF DecGrowth
  <2>2. CASE withDec
    <3>1. 1 \in 1 .. Len(types) /\ 2 \in 1 .. Len(types) /\ 1 + 1 = 2
      BY <1>3, <2>2
    <3>2. 1 \in DecElements' \ Elements /\ 2 \in DisElements'
      BY <1>1, <1>2, <1>3, <2>2, <3>1
    <3> QED BY <1>1, <1>5, <1>6, <2>2, <3>1, <3>2 DEF DecGrowth
  <2> QED BY <2>1, <2>2
<1>8. VppGrowth(NV)
  <2>1. CASE ~withVpp
    BY <1>1, <2>1 DEF VppGrowth
  <2>2. CASE withVpp
    <3>1. 3 \in 1 .. Len(types) /\ 4 \in 1 .. Len(types) /\ 3 + 1 = 4
      BY <1>3, <2>2
    <3>2. 3 \in VppElements' \ Elements /\ 4 \in DisElements'
      BY <1>1, <1>2, <1>3, <2>2, <3>1
    <3> QED BY <1>1, <1>5, <1>6, <2>2, <3>1, <3>2 DEF VppGrowth
  <2> QED BY <2>1, <2>2
<1>9. ListInv /\ del_dec_list_' \in {del_dec_list_, << >>} /\ del_dec_list_' = del_dec_list_
  BY DEF GInv
<1>10. ListInv' /\ Decs' = Decs \cup ND /\ Vpps' = Vpps \cup NV /\ Detached' = Detached
  <2> HIDE DEF ND, NV
  <2> QED BY ONLY <1>2, <1>7, <1>8, <1>9, ListsGrow
<1> QED BY <1>1, <1>2, <1>3, <1>4, <1>10

\* The graph before the first call.
LEMMA InitGInv == GraphInit => GInv
<1> SUFFICES ASSUME GraphInit PROVE GInv
  OBVIOUS
<1>1. /\ kind = << >> /\ dec_list_ = << >> /\ vpp_list_ = << >> /\ del_dec_list_ = << >>
      /\ dec_dis_map_ = << >> /\ vpp_dis_map_ = << >> /\ enc_multimap_ = {} /\ links = {}
      /\ live = {} /\ lost = {} /\ asked = {} /\ threads = {} /\ calls = 0
  BY DEF GraphInit
<1>2. xcoder \in XcoderStates /\ ~xcoder.done_init_ /\ ~xcoder.is_running_
      /\ ~xcoder.cleaned /\ Renders = {}
  BY DEF GraphInit, XcoderStates, Renders, Null
<1>3. Decs = {} /\ Vpps = {} /\ Detached = {} /\ Encs = {} /\ Listed = {}
  BY <1>1 DEF Decs, Vpps, Detached, Encs, Listed, ToSet
<1>4. ListInv
  <2>1. \A S : << >> \in Seq(S)
    OBVIOUS
  <2>2. IsInjective(<< >>)
    BY DEF IsInjective
  <2> QED BY <1>1, <1>3, <2>1, <2>2, EmptyMap DEF ListInv
<1>5. Dispatchers = {}
  BY <1>3, <1>4, ListsAreSets DEF ListFacts
<1>6. PairInv
  BY <1>1, <1>2, <1>3 DEF PairInv
<1>7. LiveInv
  BY <1>1, <1>2, <1>3, <1>5 DEF LiveInv, OwnedElements
<1>8. LinkInv
  BY <1>1, <1>2 DEF LinkInv
<1>9. ThreadsFollowTheTranscoder
  BY <1>1, <1>2 DEF ThreadsFollowTheTranscoder
<1>10. EndsInv
  BY <1>1, <1>2 DEF EndsInv, Nothing
<1> QED BY <1>4, <1>6, <1>7, <1>8, <1>9, <1>10 DEF GInv

-----------------------------------------------------------------------------
(* The calls that leave the graph as it is. *)

LEMMA AskKeeps ==
  ASSUME GInv, NEW S, S \subseteq live, NEW r, Ask(S, r)
  PROVE  GInv'
<1>1. calls' = calls + 1 /\ calls \in Nat /\ xcoder \in XcoderStates
  BY DEF Ask, Enter, GInv, EndsInv
<1>2. ThreadsFollowTheTranscoder'
  BY DEF Ask, GInv, ThreadsFollowTheTranscoder, Listed, Encs, workers, shape
<1> QED BY <1>1, <1>2, Keeps DEF Ask, heap, workers, shape, drivers

\* What a handle can name is in a list, and not deleted.
LEMMA HandlesAreLive ==
  GInv => /\ Encs \subseteq live /\ Vpps \subseteq live
          /\ \A d \in DOMAIN dec_dis_map_ : dec_dis_map_[d] \in live
<1> SUFFICES ASSUME GInv
             PROVE  /\ Encs \subseteq live /\ Vpps \subseteq live
                    /\ \A d \in DOMAIN dec_dis_map_ : dec_dis_map_[d] \in live
  OBVIOUS
<1>1. Encs \subseteq live /\ Vpps \subseteq live /\ Dispatchers \subseteq live
  BY DEF GInv, LiveInv, OwnedElements
<1>2. \A d \in DOMAIN dec_dis_map_ : dec_dis_map_[d] \in Dispatchers
  BY ListsAreSets DEF GInv, ListInv, ListFacts
<1> QED BY <1>1, <1>2

LEMMA RequestsKeep ==
  ASSUME GInv, NEW h, NEW d, NEW inputs,
         \/ MarkLTR(h) \/ MarkRL(h) \/ ForceKeyFrame(h) \/ SetBitrate(h)
         \/ AppendEncoderROI(h) \/ SetResolution(h) \/ SetBackgroundColor(h)
         \/ SetKeepRatio(h) \/ SetComboType(h, d) \/ SetCustomLayout(h, inputs)
  PROVE  GInv'
<1> SUFFICES \E S \in SUBSET live : \E r : Ask(S, r)
  BY AskKeeps
<1>0. {} \in SUBSET live
  OBVIOUS
<1>1. ASSUME AskEncoder(h) PROVE \E S \in SUBSET live : \E r : Ask(S, r)
  <2>1. Encs \cap {h} \in SUBSET live
    BY HandlesAreLive
  <2> QED BY <1>0, <1>1, <2>1 DEF AskEncoder
<1>2. ASSUME AskVpp(h) PROVE \E S \in SUBSET live : \E r : Ask(S, r)
  <2>1. h \in ToSet(vpp_list_) => {h} \in SUBSET live
    BY HandlesAreLive DEF Vpps
  <2> QED BY <1>0, <1>2, <2>1 DEF AskVpp
<1>3. ASSUME MarkReference(h) PROVE \E S \in SUBSET live : \E r : Ask(S, r)
  <2> DEFINE able == {e \in Encs : kind[e] = "ENCODER"}
  <2>1. able \in SUBSET live /\ (h \in able => {h} \in SUBSET live)
    BY HandlesAreLive
  <2>2. \/ Ask({}, "failed")
        \/ Ask(able, "ok")
        \/ h \in able /\ \E r \in {"ok", "failed"} : Ask({h}, r)
    BY <1>3 DEF MarkReference
  <2> HIDE DEF able
  <2> QED BY <1>0, <2>1, <2>2
<1>4. ASSUME SetComboType(h, d) PROVE \E S \in SUBSET live : \E r : Ask(S, r)
  <2> DEFINE named == {d} \cap DOMAIN dec_dis_map_
             all == {h} \cup {dec_dis_map_[i] : i \in named}
  <2>1. h \in ToSet(vpp_list_) => all \in SUBSET live
    BY HandlesAreLive DEF Vpps
  <2>2. \/ h \in ToSet(vpp_list_) /\ Ask(all, "ok")
        \/ Ask({}, "failed")
    BY <1>4 DEF SetComboType
  <2> HIDE DEF all
  <2> QED BY <1>0, <2>1, <2>2
<1>5. ASSUME SetCustomLayout(h, inputs) PROVE \E S \in SUBSET live : \E r : Ask(S, r)
  <2> DEFINE all == {h} \cup {dec_dis_map_[i] : i \in inputs \cap DOMAIN dec_dis_map_}
  <2>1. h \in ToSet(vpp_list_) => all \in SUBSET live
    BY HandlesAreLive DEF Vpps
  <2>2. Ask({}, "failed") \/ (h \in ToSet(vpp_list_) /\ Ask(all, "ok"))
    BY <1>5 DEF SetCustomLayout
  <2> HIDE DEF all
  <2> QED BY <1>0, <2>1, <2>2
<1> QED
  BY <1>1, <1>2, <1>3, <1>4, <1>5
     DEF MarkLTR, MarkRL, ForceKeyFrame, SetBitrate, AppendEncoderROI, SetResolution,
         SetBackgroundColor, SetKeepRatio

LEMMA WaitingKeeps ==
  ASSUME GInv,
         \/ \E op, vpp, dec : TimedBegin(op, vpp, dec)
         \/ TimedGivesUp
         \/ \E v : VppEnds(v)
  PROVE  GInv'
<1>1. UNCHANGED <<heap, threads, shape, del_dec_list_, drivers, xcoder, asked, lost>>
  BY DEF TimedBegin, TimedGivesUp, VppEnds, workers
<1>2. calls \in Nat /\ (calls' = calls \/ calls' = calls + 1)
  BY DEF TimedBegin, TimedGivesUp, VppEnds, GInv, EndsInv
<1>3. ThreadsFollowTheTranscoder'
  BY <1>1 DEF GInv, ThreadsFollowTheTranscoder, Listed, Encs, shape
<1>4. calls' \in Nat /\ (calls' = 0 => calls = 0 /\ threads' = {} /\ ~xcoder'.is_running_)
  BY <1>1, <1>2 DEF GInv, EndsInv
<1>5. asked' \subseteq live /\ xcoder' \in XcoderStates
  BY <1>1 DEF GInv, LiveInv, EndsInv
<1> QED BY <1>1, <1>3, <1>4, <1>5, Keeps DEF heap, shape, drivers

\* Start, Join and Stop.
LEMMA RunningKeeps ==
  ASSUME GInv, StartXcoder \/ JoinBegin \/ JoinEnd \/ StopXcoder
  PROVE  GInv'
<1>1. UNCHANGED <<heap, shape, del_dec_list_, drivers, lost>> /\ asked' \in {asked, {}}
  BY DEF StartXcoder, JoinBegin, JoinEnd, StopXcoder, Answer
<1>2. calls \in Nat /\ xcoder \in XcoderStates /\ asked' \subseteq live
  BY <1>1 DEF GInv, EndsInv, LiveInv
<1>3. Listed' = Listed
  BY <1>1 DEF shape, Listed, Encs
<1>4. /\ xcoder' \in XcoderStates /\ xcoder'.done_init_ = xcoder.done_init_
      /\ xcoder'.m_bRender_ = xcoder.m_bRender_ /\ xcoder'.render_ = xcoder.render_
      /\ xcoder'.cleaned = xcoder.cleaned
  BY <1>2 DEF StartXcoder, JoinBegin, JoinEnd, StopXcoder, XcoderStates
<1>5. ThreadsFollowTheTranscoder'
  <2>1. CASE StartXcoder
    BY <1>2, <1>3, <2>1
       DEF StartXcoder, GInv, ThreadsFollowTheTranscoder, XcoderStates
  <2>2. CASE JoinBegin
    BY <1>2, <1>3, <2>2
       DEF JoinBegin, GInv, ThreadsFollowTheTranscoder, XcoderStates, workers
  <2>3. CASE JoinEnd
    BY <1>2, <1>3, <2>3
       DEF JoinEnd, GInv, ThreadsFollowTheTranscoder, XcoderStates
  <2>4. CASE StopXcoder
    BY <1>2, <1>3, <2>4
       DEF StopXcoder, StopElements, GInv, ThreadsFollowTheTranscoder, XcoderStates
  <2> QED BY <2>1, <2>2, <2>3, <2>4
<1>6. calls' \in Nat /\ (calls' = 0 => calls = 0 /\ threads' = {} /\ ~xcoder'.is_running_)
  <2>1. CASE JoinEnd
    BY <1>2, <2>1 DEF JoinEnd, GInv, EndsInv, XcoderStates
  <2>2. CASE ~JoinEnd
    BY <1>2, <2>2 DEF StartXcoder, JoinBegin, StopXcoder, Enter
  <2> QED BY <2>1, <2>2
<1> QED BY <1>1, <1>2, <1>4, <1>5, <1>6, Keeps DEF heap, shape, drivers

LEMMA InitFailsKeeps ==
  ASSUME GInv, calls = 0, calls' = 1, ~xcoder.cleaned, NEW withVpp \in BOOLEAN,
         NEW output, NEW dcodec, NEW got, InitFails(withVpp, output, dcodec, got)
  PROVE  GInv'
<1> DEFINE want == IF withVpp THEN 4 ELSE 3
           dec == DecElement("Init", dcodec)
           none == got < want \/ dec = "NULL"
           made == IF none THEN << >>
                   ELSE <<dec, "DIS">> \o (IF withVpp THEN <<"VPP", "DIS">> ELSE << >>)
           withDec == IF none THEN FALSE ELSE TRUE
           both == IF none THEN FALSE ELSE withVpp
           ND == IF withDec THEN {1} ELSE {}
           NV == IF both THEN {3} ELSE {}
<1>1. dec \in DecTypes \cup {"NULL"}
  BY TypesAre
<1> HIDE DEF dec
<1>2. /\ made \in Seq(ElementTypes)
      /\ Len(made) = IF both THEN 4 ELSE IF withDec THEN 2 ELSE 0
      /\ withDec => made[1] \in DecTypes /\ made[2] = "DIS" /\ made # << >>
      /\ both => made[3] = "VPP" /\ made[4] = "DIS"
      /\ ~withDec => made = << >>
      /\ withDec \in BOOLEAN /\ both \in BOOLEAN /\ (both => withDec)
  <2>1. CASE none
    <3>1. made = << >> /\ << >> \in Seq(ElementTypes) /\ Len(<< >>) = 0
      BY <2>1
    <3>2. ~withDec /\ ~both /\ withDec \in BOOLEAN /\ both \in BOOLEAN
      BY <2>1
    <3> HIDE DEF made, none, withDec, both
    <3> QED BY <3>1, <3>2
  <2>2. CASE ~none /\ ~withVpp
    <3>1. made = <<dec, "DIS">>
      BY <2>2, JoinEmpty
    <3>2. dec \in DecTypes /\ dec \in ElementTypes /\ "DIS" \in ElementTypes
      BY <1>1, <2>2 DEF ElementTypes
    <3>3. made # << >> /\ made \in Seq(ElementTypes) /\ Len(made) = 2 /\ made[1] = dec
          /\ made[2] = "DIS"
      BY <3>1, <3>2
    <3> HIDE DEF made
    <3> QED BY <2>2, <3>2, <3>3
  <2>3. CASE ~none /\ withVpp
    <3>1. made = <<dec, "DIS", "VPP", "DIS">>
      BY <2>3, JoinTwoTwo
    <3>2. /\ dec \in DecTypes /\ dec \in ElementTypes /\ "DIS" \in ElementTypes
          /\ "VPP" \in ElementTypes
      BY <1>1, <2>3 DEF ElementTypes
    <3>3. made # << >> /\ made \in Seq(ElementTypes) /\ Len(made) = 4 /\ made[1] = dec
          /\ made[2] = "DIS" /\ made[3] = "VPP" /\ made[4] = "DIS"
      BY <3>1, <3>2, SMTT(20)
    <3> HIDE DEF made
    <3> QED BY <2>3, <3>2, <3>3
  <2> QED BY <2>1, <2>2, <2>3
<1>3. /\ kind' = kind \o made
      /\ live' = live \cup (Len(kind) + 1 .. Len(kind) + Len(made))
      /\ dec_list_' = (IF made = << >> THEN << >> ELSE << 1 >>)
      /\ dec_dis_map_' = (IF made = << >> THEN << >> ELSE [d \in {1} |-> 2])
      /\ vpp_list_' = (IF Len(made) = 4 THEN << 3 >> ELSE << >>)
      /\ vpp_dis_map_' = (IF Len(made) = 4 THEN [v \in {3} |-> 4] ELSE << >>)
      /\ xcoder' = [xcoder EXCEPT !.m_bRender_ = (output = "render")]
      /\ asked' = {}
      /\ UNCHANGED <<workers, enc_multimap_, links, del_dec_list_, lost>>
  BY DEF InitFails, Create, Answer, dec
<1> HIDE DEF made, none, withDec, both
<1>4. /\ dec_list_' = (IF withDec THEN << 1 >> ELSE << >>)
      /\ dec_dis_map_' = (IF withDec THEN [d \in {1} |-> 2] ELSE << >>)
      /\ vpp_list_' = (IF both THEN << 3 >> ELSE << >>)
      /\ vpp_dis_map_' = (IF both THEN [v \in {3} |-> 4] ELSE << >>)
  <2>1. Len(made) = 4 <=> both
    BY <1>2
  <2>2. made = << >> <=> ~withDec
    BY <1>2
  <2> QED BY ONLY <1>2, <1>3, <2>1, <2>2
<1>5. /\ ListInv' /\ Detached' = {} /\ Decs' = ND /\ Vpps' = NV
      /\ Elements' = 1 .. Len(made) /\ Len(made) \in Nat
  <2>1. /\ withDec => Len(made) >= 2 /\ made[1] \in DecTypes /\ made[2] = "DIS"
        /\ both => Len(made) >= 4 /\ made[3] = "VPP" /\ made[4] = "DIS"
    BY <1>2
  <2> QED BY <1>2, <1>3, <1>4, <2>1, FirstLists
<1>6. /\ Elements' = ND \cup NV \cup {e + 1 : e \in ND \cup NV}
      /\ 0 + 1 .. 0 + Len(made) = Elements'
  <2>1. 1 .. 0 = {} /\ 1 .. 2 = {1, 2} /\ 1 .. 4 = {1, 2, 3, 4}
    OBVIOUS
  <2>2. CASE both
    BY <1>2, <1>5, <2>1, <2>2
  <2>3. CASE ~both /\ withDec
    BY <1>2, <1>5, <2>1, <2>3
  <2>4. CASE ~both /\ ~withDec
    BY <1>2, <1>5, <2>1, <2>4
  <2> QED BY <2>2, <2>3, <2>4
<1>7. Growth(ND, NV, {}, {}, {}, {})
  <2>1. /\ Elements = {} /\ EncElements = {} /\ RenderElements = {}
        /\ Decs = {} /\ Vpps = {} /\ Detached = {} /\ Renders = {} /\ live = {}
        /\ Len(kind) = 0 /\ ~xcoder.done_init_ /\ ~xcoder.is_running_
        /\ xcoder \in XcoderStates
    BY FirstCall DEF EncElements, RenderElements, OfKind
  <2>2. /\ xcoder' \in XcoderStates /\ ~xcoder'.done_init_ /\ ~xcoder'.is_running_
        /\ ~xcoder'.cleaned /\ xcoder'.render_ = xcoder.render_
    BY <1>3, <2>1 DEF XcoderStates
  <2>3. Renders' = {}
    BY <2>1, <2>2 DEF Renders
  <2>4. live' = Elements' /\ ND \subseteq Elements' /\ NV \subseteq Elements'
    BY <1>3, <1>6, <2>1
  <2>5. threads' = threads
    BY <1>3 DEF workers
  <2> HIDE DEF ND, NV
  <2>6. calls' \in Nat \ {0}
    OBVIOUS
  <2> QED
    BY <1>3, <1>5, <1>6, <2>1, <2>2, <2>3, <2>4, <2>5, <2>6 DEF Growth
<1> QED BY <1>5, <1>7, Grows

LEMMA InitSucceedsKeeps ==
  ASSUME GInv, calls = 0, calls' = 1, ~xcoder.cleaned, NEW withVpp \in BOOLEAN,
         NEW output \in {"enc", "render"}, NEW dcodec, NEW ecodec, NEW fei, NEW extra,
         withVpp \/ output = "enc",
         DecElement("Init", dcodec) # "NULL",
         output = "enc" => EncElement(ecodec, fei) # "NULL",
         InitSucceeds(withVpp, output, dcodec, ecodec, fei, extra)
  PROVE  GInv'
<1> DEFINE out == IF withVpp THEN 5 ELSE 3
           rendering == output = "render"
           last == IF rendering THEN "RENDER" ELSE EncElement(ecodec, fei)
           dec == DecElement("Init", dcodec)
           made == <<dec, "DIS">> \o (IF withVpp THEN <<"VPP", "DIS">> ELSE << >>) \o <<last>>
           NV == IF withVpp THEN {3} ELSE {}
           NE == IF rendering THEN {} ELSE {<<IF withVpp THEN 3 ELSE Null, out>>}
           NR == IF rendering THEN {out} ELSE {}
           NL == {<<e, e + 1>> : e \in 1 .. out - 1}
<1>1. /\ dec \in DecTypes /\ (rendering => last = "RENDER")
      /\ (~rendering => last \in EncTypes) /\ (rendering => withVpp)
  <2>1. dec \in DecTypes
    BY TypesAre
  <2>2. ~rendering => last \in EncTypes
    BY TypesAre
  <2> HIDE DEF dec
  <2> QED BY <2>1, <2>2
<1>2. /\ made \in Seq(ElementTypes) /\ Len(made) = out
      /\ made[1] \in DecTypes /\ made[2] = "DIS" /\ made[out] = last
      /\ withVpp => made[3] = "VPP" /\ made[4] = "DIS"
  <2>1. /\ dec \in ElementTypes /\ "DIS" \in ElementTypes /\ "VPP" \in ElementTypes
        /\ last \in ElementTypes
    <3> HIDE DEF dec, last, rendering
    <3> QED BY <1>1 DEF ElementTypes
  <2>2. made = IF withVpp THEN <<dec, "DIS", "VPP", "DIS", last>> ELSE <<dec, "DIS", last>>
    <3> HIDE DEF dec, last
    <3>1. /\ <<dec, "DIS">> \o <<"VPP", "DIS">> = <<dec, "DIS", "VPP", "DIS">>
          /\ <<dec, "DIS">> \o << >> = <<dec, "DIS">>
      BY JoinTwoTwo, JoinEmpty
    <3>2. /\ <<dec, "DIS", "VPP", "DIS">> \o <<last>> = <<dec, "DIS", "VPP", "DIS", last>>
          /\ <<dec, "DIS">> \o <<last>> = <<dec, "DIS", last>>
      BY JoinFourOne, JoinTwoOne
    <3>3. CASE withVpp
      BY <3>1, <3>2, <3>3
    <3>4. CASE ~withVpp
      BY <3>1, <3>2, <3>4
    <3> QED BY <3>3, <3>4
  <2> HIDE DEF dec, last, made, rendering
  <2>3. CASE withVpp
    BY <1>1, <2>1, <2>2, <2>3
  <2>4. CASE ~withVpp
    BY <1>1, <2>1, <2>2, <2>4
  <2> QED BY <2>3, <2>4
<1>3. /\ kind' = kind \o made
      /\ live' = live \cup (Len(kind) + 1 .. Len(kind) + Len(made))
      /\ dec_list_' = << 1 >> /\ dec_dis_map_' = [d \in {1} |-> 2]
      /\ vpp_list_' = (IF withVpp THEN << 3 >> ELSE << >>)
      /\ vpp_dis_map_' = (IF withVpp THEN [v \in {3} |-> 4] ELSE << >>)
      /\ enc_multimap_' = NE /\ links' = NL
      /\ xcoder' = [xcoder EXCEPT !.done_init_ = TRUE, !.m_bRender_ = rendering,
                                  !.render_ = IF rendering THEN out ELSE Null]
      /\ asked' = {}
      /\ UNCHANGED <<workers, del_dec_list_, lost>>
  BY DEF InitSucceeds, Create, Answer
<1> HIDE DEF made, dec
<1>4. /\ ListInv' /\ Detached' = {} /\ Decs' = {1} /\ Vpps' = NV
      /\ Elements' = 1 .. out
      /\ rendering => out \in RenderElements'
      /\ ~rendering => out \in EncElements'
  <2> DEFINE withDec == TRUE
  <2>1. /\ withDec => Len(made) >= 2 /\ made[1] \in DecTypes /\ made[2] = "DIS"
        /\ withVpp => Len(made) >= 4 /\ made[3] = "VPP" /\ made[4] = "DIS"
        /\ dec_list_' = (IF withDec THEN << 1 >> ELSE << >>)
        /\ dec_dis_map_' = (IF withDec THEN [d \in {1} |-> 2] ELSE << >>)
    BY <1>2, <1>3
  <2>2. withDec \in BOOLEAN
    OBVIOUS
  <2>3. /\ ListInv' /\ Detached' = {}
        /\ Decs' = (IF withDec THEN {1} ELSE {})
        /\ Vpps' = (IF withVpp THEN {3} ELSE {})
        /\ Elements' = 1 .. Len(made) /\ Len(made) \in Nat
        /\ \A i \in 1 .. Len(made) :
             /\ made[i] \in EncTypes => i \in EncElements'
             /\ made[i] = "RENDER" => i \in RenderElements'
    <3> HIDE DEF withDec
    <3> QED BY <1>2, <1>3, <2>1, <2>2, FirstLists
  <2>4. out \in 1 .. out
    OBVIOUS
  <2> QED BY <1>1, <1>2, <2>3, <2>4
<1>5. /\ 1 .. out = (IF withVpp THEN {1, 2, 3, 4, 5} ELSE {1, 2, 3})
      /\ NL = (IF withVpp THEN {<<1, 2>>, <<2, 3>>, <<3, 4>>, <<4, 5>>}
               ELSE {<<1, 2>>, <<2, 3>>})
      /\ 0 + 1 .. 0 + out = 1 .. out
  <2>1. CASE withVpp
    <3>1. 1 .. 5 = {1, 2, 3, 4, 5} /\ 1 .. 5 - 1 = {1, 2, 3, 4}
      OBVIOUS
    <3> QED BY <2>1, <3>1
  <2>2. CASE ~withVpp
    <3>1. 1 .. 3 = {1, 2, 3} /\ 1 .. 3 - 1 = {1, 2}
      OBVIOUS
    <3> QED BY <2>2, <3>1
  <2> QED BY <2>1, <2>2
<1>6. /\ Elements = {} /\ EncElements = {} /\ RenderElements = {}
      /\ Decs = {} /\ Vpps = {} /\ Detached = {} /\ Renders = {} /\ live = {}
      /\ links = {} /\ enc_multimap_ = {}
      /\ Len(kind) = 0 /\ ~xcoder.done_init_ /\ ~xcoder.is_running_
      /\ xcoder \in XcoderStates
  BY FirstCall DEF EncElements, RenderElements, OfKind
<1>7. /\ xcoder' \in XcoderStates /\ xcoder'.done_init_ /\ ~xcoder'.is_running_
      /\ ~xcoder'.cleaned /\ xcoder'.m_bRender_ = rendering
      /\ xcoder'.render_ = IF rendering THEN out ELSE Null
  <2>1. rendering \in BOOLEAN /\ (IF rendering THEN out ELSE Null) \in Nat
    BY DEF Null
  <2> HIDE DEF rendering, out
  <2> QED BY <1>3, <1>6, <2>1 DEF XcoderStates
<1>8. Renders' = NR
  BY <1>7 DEF Renders, Null
<1>9. \A l \in NL : l \in Elements' \X Elements' /\ MayLink(l)'
  <2>1. 1 \in Decs' /\ enc_multimap_' = NE
    BY <1>3, <1>4
  <2>2. CASE withVpp
    <3>1. /\ 3 \in Vpps' /\ Elements' = {1, 2, 3, 4, 5}
          /\ 5 \in Renders' \/ <<3, 5>> \in enc_multimap_'
      BY <1>3, <1>4, <1>5, <1>8, <2>2
    <3>2. ASSUME NEW l, l = <<1, 2>> PROVE l \in Elements' \X Elements' /\ MayLink(l)'
      <4>1. l = <<1, 1 + 1>>
        BY <3>2
      <4> QED BY <2>1, <3>1, <4>1 DEF MayLink
    <3>3. ASSUME NEW l, l = <<3, 4>> PROVE l \in Elements' \X Elements' /\ MayLink(l)'
      <4>1. l = <<3, 3 + 1>>
        BY <3>3
      <4> QED BY <3>1, <3>3, <4>1 DEF MayLink
    <3>4. ASSUME NEW l, l = <<2, 3>> PROVE l \in Elements' \X Elements' /\ MayLink(l)'
      <4>1. l[1] = 1 + 1 /\ l[2] = 3
        BY <3>4
      <4> QED BY <2>1, <3>1, <3>4, <4>1 DEF MayLink
    <3>5. ASSUME NEW l, l = <<4, 5>> PROVE l \in Elements' \X Elements' /\ MayLink(l)'
      <4>1. l[1] = 3 + 1 /\ l[2] = 5
        BY <3>5
      <4> QED BY <3>1, <3>5, <4>1 DEF MayLink
    <3> HIDE DEF NL
    <3> QED BY <1>5, <2>2, <3>2, <3>3, <3>4, <3>5
  <2>3. CASE ~withVpp
    <3>1. Elements' = {1, 2, 3} /\ <<Null, 3>> \in enc_multimap_'
      BY <1>1, <1>3, <1>4, <1>5, <2>3
    <3>2. ASSUME NEW l, l = <<1, 2>> PROVE l \in Elements' \X Elements' /\ MayLink(l)'
      <4>1. l = <<1, 1 + 1>>
        BY <3>2
      <4> QED BY <2>1, <3>1, <4>1 DEF MayLink
    <3>3. ASSUME NEW l, l = <<2, 3>> PROVE l \in Elements' \X Elements' /\ MayLink(l)'
      <4>1. l[1] = 1 + 1 /\ l[2] = 3
        BY <3>3
      <4> QED BY <2>1, <3>1, <3>3, <4>1 DEF MayLink
    <3> HIDE DEF NL
    <3> QED BY <1>5, <2>3, <3>2, <3>3
  <2> QED BY <2>2, <2>3
<1>10. Growth({1}, NV, NE, NR, NL, {})
  <2>1. /\ live' = 1 .. out /\ {1} \subseteq Elements' /\ NV \subseteq Elements'
        /\ NR \subseteq RenderElements' \ Elements
        /\ NE \subseteq (Vpps' \cup {Null}) \X (EncElements' \ Elements)
    BY <1>2, <1>3, <1>4, <1>5, <1>6
  <2>2. 1 .. out = {1} \cup NV \cup {e + 1 : e \in {1} \cup NV} \cup {p[2] : p \in NE} \cup NR
    <3>1. CASE withVpp /\ rendering
      BY <1>5, <3>1
    <3>2. CASE withVpp /\ ~rendering
      <4>1. {p[2] : p \in NE} = {5}
        BY <3>2
      <4> QED BY <1>5, <3>2, <4>1
    <3>3. CASE ~withVpp
      <4>1. NE = {<<Null, 3>>}
        BY <1>1, <3>3
      <4>2. {p[2] : p \in NE} = {3}
        <5> HIDE DEF NE
        <5> QED BY <4>1
      <4> QED BY <1>5, <1>1, <3>3, <4>2
    <3> QED BY <3>1, <3>2, <3>3
  <2>3. /\ \A v \in NV : xcoder'.m_bRender_ \/ \E e : <<v, e>> \in NE
        /\ \A e \in {1} \cup NV : <<e, e + 1>> \in NL
        /\ \A p \in NE : p[1] # Null => <<p[1] + 1, p[2]>> \in NL
        /\ xcoder'.m_bRender_ \/ NE # {}
        /\ \A p, q \in NE : p = q
    <3>1. \A v \in NV : rendering \/ <<v, out>> \in NE
      OBVIOUS
    <3>2. \A p \in NE : p[1] # Null => <<p[1] + 1, p[2]>> \in NL
      <4>1. NE \subseteq {<<3, 5>>, <<Null, 3>>} /\ (<<3, 5>> \in NE => withVpp)
        BY DEF Null
      <4>2. withVpp => <<3 + 1, 5>> \in NL
        BY <1>5
      <4> HIDE DEF NE, NL
      <4> QED BY <4>1, <4>2 DEF Null
    <3>3. \A e \in {1} \cup NV : <<e, e + 1>> \in NL
      BY <1>5
    <3> QED BY <1>7, <3>1, <3>2, <3>3
  <2>4. threads' = threads
    BY <1>3 DEF workers
  <2>5. calls' \in Nat \ {0} /\ NL = links \cup NL /\ NE = enc_multimap_ \cup NE
        /\ NR = Renders \cup NR /\ NV = Vpps \cup NV /\ {1} = Decs \cup {1}
        /\ live \ (Detached \ Detached') = {} /\ lost' = lost \cup {}
    BY <1>3, <1>6
  <2> HIDE DEF NV, NE, NR, NL, rendering, out
  <2>6. /\ xcoder'.done_init_ =>
             /\ \A v \in NV : xcoder'.m_bRender_ \/ \E e : <<v, e>> \in NE
             /\ \A e \in {1} \cup NV : <<e, e + 1>> \in NL
             /\ \A p \in NE : p[1] # Null => <<p[1] + 1, p[2]>> \in NL
             /\ xcoder.done_init_ \/ xcoder'.m_bRender_ \/ NE # {}
        /\ \A p, q \in NE : p = q
    BY <2>3
  <2>7. /\ {1} \subseteq Elements' \ Elements /\ NV \subseteq Elements' \ Elements
        /\ {} \subseteq Elements' \ Elements
        /\ Elements \subseteq Elements' /\ EncElements \subseteq EncElements'
        /\ RenderElements \subseteq RenderElements'
    BY <1>6, <2>1
  <2>8. /\ live' = (live \ (Detached \ Detached')) \cup {1} \cup NV
                    \cup {e + 1 : e \in {1} \cup NV} \cup {p[2] : p \in NE} \cup NR \cup {}
        /\ Decs' = Decs \cup {1} /\ Vpps' = Vpps \cup NV /\ Detached' \subseteq Detached
        /\ enc_multimap_' = enc_multimap_ \cup NE /\ Renders' = Renders \cup NR
        /\ links' = links \cup NL /\ lost' = lost \cup {}
    BY ONLY <1>3, <1>4, <1>6, <1>8, <2>1, <2>2, <2>5
  <2>9. /\ ~xcoder'.cleaned /\ xcoder' \in XcoderStates
        /\ xcoder'.is_running_ = xcoder.is_running_ /\ ~xcoder.is_running_
    BY <1>6, <1>7 DEF XcoderStates
  <2> QED
    BY <1>3, <1>9, <2>1, <2>4, <2>5, <2>6, <2>7, <2>8, <2>9 DEF Growth
<1> QED BY <1>4, <1>10, Grows

LEMMA XcoderInitKeeps ==
  ASSUME GInv, NEW withVpp \in BOOLEAN, NEW output \in {"enc", "render"}, NEW dcodec,
         NEW ecodec, NEW fei, XcoderInit(withVpp, output, dcodec, ecodec, fei)
  PROVE  GInv'
<1>1. calls = 0 /\ calls' = 1 /\ calls' = calls + 1 /\ ~xcoder.cleaned
      /\ (withVpp \/ output = "enc")
  BY DEF XcoderInit, Enter
<1>2. CASE Refuse
  BY <1>1, <1>2, RefusalsKeep
<1>3. ASSUME NEW got, InitFails(withVpp, output, dcodec, got) PROVE GInv'
  BY <1>1, <1>3, InitFailsKeeps
<1>4. ASSUME DecElement("Init", dcodec) # "NULL",
             output = "enc" => EncElement(ecodec, fei) # "NULL",
             NEW extra, InitSucceeds(withVpp, output, dcodec, ecodec, fei, extra)
      PROVE  GInv'
  BY <1>1, <1>4, InitSucceedsKeeps
<1> QED BY <1>2, <1>3, <1>4 DEF XcoderInit

-----------------------------------------------------------------------------
(* The calls that detach. *)

\* Elements of one kind, and one of the kind after it, are told apart.
LEMMA NextsDiffer ==
  ASSUME ListInv, NEW x \in Decs \cup Vpps
  PROVE  /\ x \in Nat /\ x + 1 \in DisElements /\ x + 1 \in Dispatchers
         /\ x + 1 \notin Decs \cup Vpps \cup Detached \cup EncElements \cup RenderElements
         /\ \A y \in Decs \cup Vpps : y + 1 = x + 1 => y = x
         /\ x # Null
<1>1. ListFacts
  BY ListsAreSets
<1>2. x \in Elements /\ \A y \in Decs \cup Vpps : y \in Elements
  BY <1>1 DEF ListFacts, KindFacts
<1>3. \A y \in Elements : y \in Nat
  BY <1>1 DEF ListFacts, KindFacts
<1> QED BY <1>1, <1>2, <1>3 DEF ListFacts, KindFacts

\* Every end of a link is owned.
LEMMA LinksAreOwned ==
  ASSUME GInv, NEW l \in links
  PROVE  l[1] \in OwnedElements /\ l[2] \in OwnedElements
<1>1. MayLink(l)
  BY DEF GInv, LinkInv
<1>2. \A e \in Decs \cup Vpps : e + 1 \in Dispatchers
  BY NextsDiffer DEF GInv
<1>3. \A v, e : <<v, e>> \in enc_multimap_ => e \in Encs
  BY DEF Encs
<1>4. CASE \E e \in Decs \cup Vpps : l = <<e, e + 1>>
  BY <1>2, <1>4 DEF OwnedElements
<1>5. CASE \E d \in Decs : l[1] = d + 1 /\ (l[2] \in Vpps \/ <<Null, l[2]>> \in enc_multimap_)
  BY <1>2, <1>3, <1>5 DEF OwnedElements
<1>6. CASE \E v \in Vpps : l[1] = v + 1 /\ (l[2] \in Renders \/ <<v, l[2]>> \in enc_multimap_)
  BY <1>2, <1>3, <1>6 DEF OwnedElements
<1> QED BY <1>1, <1>4, <1>5, <1>6 DEF MayLink

LEMMA DetachInputKeeps ==
  ASSUME GInv, ~xcoder.cleaned, UNCHANGED calls \/ calls' = calls + 1,
         NEW dec, DetachInputDo(dec)
  PROVE  GInv'
<1>1. CASE Refuse
  BY <1>1, RefusalsKeep
<1> DEFINE dis == dec_dis_map_[dec]
<1>2. ASSUME ~DetachRefused(dec), dec \in ToSet(dec_list_),
             dec_list_' = Without(dec_list_, dec), StopElements({dec, dis}),
             dec_dis_map_' = Restrict(dec_dis_map_, DOMAIN dec_dis_map_ \ {dec}),
             links' = {l \in links : l[1] \notin {dec, dis}}, live' = live \ {dis},
             del_dec_list_' = Append(del_dec_list_, dec), asked' = {},
             UNCHANGED <<kind, vpp_list_, vpp_dis_map_, enc_multimap_, xcoder, lost>>
      PROVE  GInv'
  <2>1. ListFacts /\ dec \in Decs /\ dis = dec + 1 /\ Decs \in SUBSET Nat /\ dec \in Nat
    BY <1>2, ListsAreSets DEF Decs, GInv, ListInv, ListFacts, KindFacts
  <2>2. /\ Elements' = Elements /\ DecElements' = DecElements /\ VppElements' = VppElements
        /\ EncElements' = EncElements /\ DisElements' = DisElements
        /\ RenderElements' = RenderElements /\ Vpps' = Vpps /\ Encs' = Encs
        /\ Renders' = Renders
    BY <1>2 DEF Elements, DecElements, VppElements, EncElements, DisElements,
                RenderElements, OfKind, Vpps, Encs, Renders
  <2>3. /\ dec_list_' \in Seq(DecElements) /\ IsInjective(dec_list_')
        /\ Decs' = Decs \ {dec}
    BY <1>2, ListLoses DEF Decs, GInv, ListInv
  <2>4. del_dec_list_' \in Seq(DecElements) /\ Detached' = Detached \cup {dec}
    BY <1>2, <2>1, ListGrows DEF Detached, GInv, ListInv, ListFacts
  <2>5. dec_dis_map_' = [d \in Decs' |-> d + 1]
    BY <1>2, <2>1, <2>3, MapsFollow DEF GInv, ListInv
  <2>6. ListInv'
    BY <1>2, <2>2, <2>3, <2>4, <2>5 DEF GInv, ListInv
  <2>7. /\ \A x \in Decs \cup Vpps : x + 1 = dec + 1 => x = dec
        /\ dec \notin Vpps \cup Encs /\ dec + 1 \notin Decs \cup Vpps \cup Detached \cup Encs
        /\ dec + 1 \notin Renders /\ dec + 1 \in Dispatchers
        /\ \A x \in Decs \cup Vpps : x + 1 # dec
    <3>1. Encs \subseteq EncElements /\ Renders \subseteq RenderElements
      BY DEF GInv, PairInv, Encs
    <3>2. dec \notin Vpps \cup Encs /\ \A x \in Decs \cup Vpps : x + 1 # dec
      BY <2>1, <3>1, NextsDiffer DEF GInv, ListFacts, KindFacts
    <3> QED BY <2>1, <3>1, <3>2, NextsDiffer DEF GInv
  <2>8. Dispatchers' = Dispatchers \ {dec + 1}
    <3>1. Dispatchers' = {e + 1 : e \in (Decs \cup Vpps) \ {dec}}
      <4>1. Decs' \cup Vpps' = (Decs \cup Vpps) \ {dec}
        BY <2>2, <2>3, <2>7
      <4> QED BY <2>6, <4>1, ListsAreSetsAfter DEF ListFacts
    <3> QED BY <2>1, <2>7, <3>1 DEF ListFacts
  <2>9. PairInv'
    BY <1>2, <2>2 DEF GInv, PairInv
  <2>10. LiveInv'
    <3>1. OwnedElements' = OwnedElements \ {dec + 1}
      BY <2>1, <2>2, <2>3, <2>4, <2>7, <2>8 DEF OwnedElements
    <3>2. dec + 1 \in OwnedElements
      BY <2>7 DEF OwnedElements
    <3> QED BY <1>2, <2>1, <2>2, <3>1, <3>2 DEF GInv, LiveInv
  <2>11. LinkInv'
    <3>1. ASSUME NEW l \in links' PROVE l \in Elements \X Elements /\ MayLink(l)'
      BY <1>2, <2>1, <2>2, <2>3, <3>1, SMTT(20) DEF GInv, LinkInv, MayLink
    <3>2. ASSUME xcoder.done_init_, NEW e \in Decs' \cup Vpps PROVE <<e, e + 1>> \in links'
      BY <1>2, <2>1, <2>3, <2>7, <3>2 DEF GInv, LinkInv
    <3>3. ASSUME xcoder.done_init_, NEW p \in enc_multimap_, p[1] # Null
          PROVE  <<p[1] + 1, p[2]>> \in links'
      <4>1. p[1] \in Vpps
        BY <3>3 DEF GInv, PairInv
      <4> QED BY <1>2, <2>1, <2>7, <3>3, <4>1 DEF GInv, LinkInv
    <3> QED BY <1>2, <2>2, <3>1, <3>2, <3>3 DEF LinkInv
  <2>12. ThreadsFollowTheTranscoder'
    <3>1. Listed' = Listed \ {dec} /\ dec + 1 \notin Listed
      BY <2>2, <2>3, <2>7 DEF Listed, Decs, Vpps
    <3> QED
      BY <1>2, <2>1, <3>1 DEF StopElements, GInv, ThreadsFollowTheTranscoder
  <2>13. EndsInv'
    <3>1. xcoder.done_init_
      BY <1>2 DEF DetachRefused
    <3> QED BY <1>2, <3>1 DEF GInv, EndsInv
  <2> QED BY <2>6, <2>9, <2>10, <2>11, <2>12, <2>13 DEF GInv
<1> QED
  BY <1>1, <1>2 DEF DetachInputDo, Answer

LEMMA DetachVppKeeps ==
  ASSUME GInv, NEW vpp, DetachVpp(vpp)
  PROVE  GInv'
<1>1. calls' = calls + 1 /\ ~xcoder.cleaned
  BY DEF DetachVpp, Enter
<1>2. CASE Refuse
  BY <1>1, <1>2, RefusalsKeep
<1> DEFINE dis == vpp_dis_map_[vpp]
           encs == {p[2] : p \in {q \in enc_multimap_ : q[1] = vpp}}
           gone == {vpp, dis, Max(encs)}
<1>3. ASSUME ~xcoder.m_bRender_, xcoder.done_init_, Len(vpp_list_) # 1,
             vpp \in ToSet(vpp_list_),
             vpp_list_' = Without(vpp_list_, vpp),
             vpp_dis_map_' = Restrict(vpp_dis_map_, DOMAIN vpp_dis_map_ \ {vpp}),
             enc_multimap_' = {p \in enc_multimap_ : p[1] # vpp},
             links' = links \ LinksOf({vpp, dis}),
             StopElements({vpp, dis} \cup encs),
             live' = live \ gone, lost' = lost \cup (encs \ gone), asked' = {},
             UNCHANGED <<kind, dec_list_, del_dec_list_, dec_dis_map_, xcoder>>
      PROVE  GInv'
  <2>1. ListFacts /\ vpp \in Vpps /\ dis = vpp + 1 /\ Vpps \in SUBSET Nat /\ vpp \in Nat
    BY <1>3, ListsAreSets DEF Vpps, GInv, ListInv, ListFacts, KindFacts
  <2> HIDE DEF dis
  <2>2. /\ Elements' = Elements /\ DecElements' = DecElements /\ VppElements' = VppElements
        /\ EncElements' = EncElements /\ DisElements' = DisElements
        /\ RenderElements' = RenderElements /\ Decs' = Decs /\ Detached' = Detached
        /\ Renders' = Renders
    BY <1>3 DEF Elements, DecElements, VppElements, EncElements, DisElements,
                RenderElements, OfKind, Decs, Detached, Renders
  <2>3. /\ vpp_list_' \in Seq(VppElements) /\ IsInjective(vpp_list_')
        /\ Vpps' = Vpps \ {vpp}
    BY <1>3, ListLoses DEF Vpps, GInv, ListInv
  <2>4. vpp_dis_map_' = [v \in Vpps' |-> v + 1]
    BY <1>3, <2>1, <2>3, MapsFollow DEF GInv, ListInv
  <2>5. ListInv'
    BY <1>3, <2>2, <2>3, <2>4 DEF GInv, ListInv
  <2>6. /\ \A x \in Decs \cup Vpps : x + 1 = vpp + 1 => x = vpp
        /\ vpp \notin Decs \cup Encs \cup Detached \cup Renders
        /\ vpp + 1 \notin Decs \cup Vpps \cup Detached \cup Encs \cup Renders
        /\ vpp + 1 \in Dispatchers /\ vpp \notin Dispatchers /\ vpp # Null
        /\ \A x \in Decs \cup Vpps : x + 1 # vpp
        /\ Encs \subseteq EncElements /\ Encs \cap Dispatchers = {}
        /\ Encs \cap (Decs \cup Vpps \cup Detached \cup Renders) = {}
    <3>1. Encs \subseteq EncElements /\ Renders \subseteq RenderElements
      BY DEF GInv, PairInv, Encs
    <3>2. /\ vpp \notin Decs \cup Encs \cup Detached \cup Renders /\ vpp \notin Dispatchers
          /\ \A x \in Decs \cup Vpps : x + 1 # vpp
          /\ Encs \cap Dispatchers = {} /\ Encs \cap (Decs \cup Vpps \cup Detached \cup Renders) = {}
      BY <2>1, <3>1, NextsDiffer DEF GInv, ListFacts, KindFacts
    <3> QED BY <2>1, <3>1, <3>2, NextsDiffer DEF GInv
  <2>7. Dispatchers' = Dispatchers \ {vpp + 1}
    <3>1. ListFacts'
      BY <2>5, ListsAreSetsAfter
    <3> QED BY <2>1, <2>2, <2>3, <2>6, <3>1 DEF ListFacts
  <2>8. encs \subseteq Encs /\ encs # {} /\ Encs' = Encs \ encs
    <3>1. \E e : <<vpp, e>> \in enc_multimap_
      BY <1>3, <2>1 DEF GInv, PairInv
    <3>2. ASSUME NEW p \in enc_multimap_, NEW q \in enc_multimap_, p[2] = q[2] PROVE p[1] = q[1]
      BY <3>2 DEF GInv, PairInv
    <3> QED BY <1>3, <3>1, <3>2 DEF Encs
  <2>9. Max(encs) \in encs
    <3>1. encs \subseteq Elements
      BY <2>1, <2>6, <2>8 DEF ListFacts, KindFacts
    <3>2. encs \subseteq Nat /\ \A x \in encs : x <= Len(kind)
      <4> HIDE DEF encs
      <4> QED BY <2>1, <3>1 DEF ListFacts, KindFacts
    <3>3. Len(kind) \in Nat
      BY <2>1 DEF ListFacts, KindFacts
    <3> HIDE DEF encs
    <3> QED BY <2>8, <3>2, <3>3, MaxIsAMember
  <2>10. PairInv'
    <3>1. PICK other \in Vpps : other # vpp
      BY <1>3, AnotherIsThere DEF GInv, ListInv, Vpps
    <3>2. \A v \in Vpps : v # vpp => \E e : <<v, e>> \in enc_multimap_'
      BY <1>3 DEF GInv, PairInv
    <3>3. enc_multimap_' \subseteq (Vpps' \cup {Null}) \X EncElements
      BY <1>3, <2>3 DEF GInv, PairInv
    <3>4. \A p, q \in enc_multimap_' : p[2] = q[2] => p = q
      BY <1>3 DEF GInv, PairInv
    <3> QED BY <1>3, <2>2, <2>3, <3>1, <3>2, <3>3, <3>4 DEF GInv, PairInv
  <2>11. LiveInv'
    <3>1. OwnedElements' = OwnedElements \ ({vpp, vpp + 1} \cup encs)
      BY <2>1, <2>2, <2>3, <2>6, <2>7, <2>8 DEF OwnedElements
    <3>2. {vpp, vpp + 1} \cup encs \subseteq OwnedElements
      BY <2>1, <2>6, <2>8 DEF OwnedElements
    <3>3. encs \subseteq Elements
      BY <2>1, <2>6, <2>8 DEF ListFacts, KindFacts
    <3>4. encs \ gone = encs \ {Max(encs)}
      BY <2>1, <2>6, <2>8
    <3> HIDE DEF encs
    <3> QED BY <1>3, <2>1, <2>2, <2>9, <3>1, <3>2, <3>3, <3>4 DEF GInv, LiveInv
  <2>12. LinkInv'
    <3>0. \A l \in links : l \in links' <=> (l[1] \notin {vpp, vpp + 1} /\ l[2] \notin {vpp, vpp + 1})
      BY <1>3, <2>1 DEF LinksOf
    <3>1. ASSUME NEW l \in links' PROVE l \in Elements \X Elements /\ MayLink(l)'
      <4>1. l \in links /\ MayLink(l) /\ l[1] \notin {vpp, vpp + 1} /\ l[2] \notin {vpp, vpp + 1}
            /\ l \in Elements \X Elements
        BY <1>3, <3>0 DEF GInv, LinkInv
      <4>2. CASE \E e \in Decs \cup Vpps : l = <<e, e + 1>>
        BY <2>2, <2>3, <4>1, <4>2 DEF MayLink
      <4>3. CASE \E d \in Decs : /\ l[1] = d + 1
                                 /\ l[2] \in Vpps \/ <<Null, l[2]>> \in enc_multimap_
        BY <1>3, <2>2, <2>3, <2>6, <4>1, <4>3 DEF MayLink
      <4>4. CASE \E v \in Vpps : /\ l[1] = v + 1
                                 /\ l[2] \in Renders \/ <<v, l[2]>> \in enc_multimap_
        BY <1>3, <2>2, <2>3, <4>1, <4>4 DEF MayLink
      <4> QED BY <4>1, <4>2, <4>3, <4>4 DEF MayLink
    <3>2. ASSUME NEW e \in Decs' \cup Vpps' PROVE <<e, e + 1>> \in links'
      <4>1. e \in Decs \cup Vpps /\ e # vpp
        BY <2>2, <2>3, <2>6
      <4>2. <<e, e + 1>> \in links
        BY <1>3, <4>1 DEF GInv, LinkInv
      <4> QED BY <2>6, <3>0, <4>1, <4>2
    <3>3. ASSUME NEW p \in enc_multimap_', p[1] # Null
          PROVE  <<p[1] + 1, p[2]>> \in links'
      <4>1. p \in enc_multimap_ /\ p[1] \in Vpps /\ p[1] # vpp /\ p[2] \in Encs
        BY <1>3, <3>3 DEF GInv, PairInv, Encs
      <4>2. <<p[1] + 1, p[2]>> \in links
        BY <1>3, <3>3, <4>1 DEF GInv, LinkInv
      <4> QED BY <2>6, <3>0, <4>1, <4>2
    <3> QED BY <1>3, <2>2, <3>1, <3>2, <3>3 DEF LinkInv
  <2>13. ThreadsFollowTheTranscoder'
    <3>1. Listed' = Listed \ ({vpp} \cup encs) /\ vpp + 1 \notin Listed
      <4>1. Listed = Decs \cup Vpps \cup Encs /\ Listed' = Decs' \cup Vpps' \cup Encs'
        BY DEF Listed, Decs, Vpps
      <4> HIDE DEF encs
      <4> QED BY <2>2, <2>3, <2>6, <2>8, <4>1
    <3> HIDE DEF encs
    <3> QED
      BY <1>3, <2>1, <3>1 DEF StopElements, GInv, ThreadsFollowTheTranscoder
  <2>14. EndsInv'
    BY <1>1, <1>3 DEF GInv, EndsInv
  <2> QED BY <2>5, <2>10, <2>11, <2>12, <2>13, <2>14 DEF GInv
<1> QED
  BY <1>2, <1>3 DEF DetachVpp, Answer

LEMMA DetachOutputKeeps ==
  ASSUME GInv, NEW enc, DetachOutput(enc)
  PROVE  GInv'
<1> DEFINE siblings(p) == {q \in enc_multimap_ : q[1] = p[1]}
           found == {p \in enc_multimap_ : p[2] = enc /\ Cardinality(siblings(p)) > 1}
<1>1. /\ calls' = calls + 1 /\ ~xcoder.cleaned
      /\ UNCHANGED <<kind, dec_list_, del_dec_list_, vpp_list_, dec_dis_map_, vpp_dis_map_,
                     xcoder, lost>>
  BY DEF DetachOutput, Enter
<1>2. ASSUME UNCHANGED <<live, workers, enc_multimap_, links>>, asked' = {}
      PROVE  GInv'
  BY <1>1, <1>2, FailingKeeps DEF heap, shape
<1>3. ASSUME xcoder.done_init_, found # {}, enc_multimap_' = enc_multimap_ \ found,
             StopElements({enc}), links' = links \ LinksOf({enc}), live' = live \ {enc},
             asked' = {}
      PROVE  GInv'
  <2>1. PICK pair \in found : TRUE
    BY <1>3
  <2>2. pair \in enc_multimap_ /\ pair[2] = enc /\ found = {pair}
    BY <2>1 DEF GInv, PairInv
  <2>3. PICK other \in enc_multimap_ : other[1] = pair[1] /\ other # pair
    <3>1. Cardinality(siblings(pair)) > 1
      BY <2>1
    <3>2. Cardinality({pair}) = 1
      BY FS_Singleton
    <3>3. siblings(pair) # {pair}
      <4> HIDE DEF siblings
      <4> QED BY <3>1, <3>2
    <3> QED BY <2>2, <3>3
  <2>4. /\ enc_multimap_' = enc_multimap_ \ {pair}
        /\ \A p \in enc_multimap_ : p[2] # enc => p \in enc_multimap_'
    BY <1>3, <2>2
  <2> HIDE DEF found
  <2>5. /\ Elements' = Elements /\ DecElements' = DecElements /\ VppElements' = VppElements
        /\ EncElements' = EncElements /\ DisElements' = DisElements
        /\ RenderElements' = RenderElements /\ Decs' = Decs /\ Detached' = Detached
        /\ Vpps' = Vpps /\ Renders' = Renders /\ Dispatchers' = Dispatchers
    BY <1>1 DEF Elements, DecElements, VppElements, EncElements, DisElements,
                RenderElements, OfKind, Decs, Vpps, Detached, Renders, Dispatchers
  <2>6. ListInv'
    BY <1>1, <2>5 DEF GInv, ListInv
  <2>7. Encs' = Encs \ {enc} /\ enc \in Encs
    BY <2>2, <2>4 DEF Encs, GInv, PairInv
  <2>8. /\ enc \notin Decs \cup Vpps \cup Detached \cup Renders \cup Dispatchers
        /\ \A x \in Decs \cup Vpps : x + 1 # enc
    <3>1. enc \in EncElements /\ Renders \subseteq RenderElements
      BY <2>2 DEF GInv, PairInv
    <3>2. ListFacts
      BY ListsAreSets DEF GInv
    <3> QED BY <3>1, <3>2 DEF ListFacts, KindFacts
  <2>9. PairInv'
    <3>1. other \in enc_multimap_'
      BY <2>3, <2>4
    <3>2. \A v : (\E e : <<v, e>> \in enc_multimap_) => \E e : <<v, e>> \in enc_multimap_'
      <4> SUFFICES ASSUME NEW v, NEW e, <<v, e>> \in enc_multimap_
                   PROVE  \E f : <<v, f>> \in enc_multimap_'
        OBVIOUS
      <4>1. CASE <<v, e>> # pair
        BY <2>4, <4>1
      <4>2. CASE <<v, e>> = pair
        <5>1. other = <<other[1], other[2]>> /\ other[1] = v
          BY <2>3, <4>2 DEF GInv, PairInv
        <5> QED BY <3>1, <5>1
      <4> QED BY <4>1, <4>2
    <3> QED BY <1>1, <2>4, <2>5, <3>1, <3>2 DEF GInv, PairInv
  <2>10. LiveInv'
    <3>1. OwnedElements' = OwnedElements \ {enc} /\ enc \in OwnedElements
      BY <2>5, <2>7, <2>8 DEF OwnedElements
    <3> QED BY <1>1, <1>3, <2>5, <3>1 DEF GInv, LiveInv
  <2>11. LinkInv'
    <3>0. \A l \in links : l \in links' <=> l[1] # enc /\ l[2] # enc
      BY <1>3 DEF LinksOf
    <3>1. ASSUME NEW l \in links' PROVE l \in Elements \X Elements /\ MayLink(l)'
      <4>1. l \in links /\ MayLink(l) /\ l[1] # enc /\ l[2] # enc /\ l \in Elements \X Elements
        BY <1>3, <3>0 DEF GInv, LinkInv
      <4>2. \A v : <<v, l[2]>> \in enc_multimap_ => <<v, l[2]>> \in enc_multimap_'
        BY <2>4, <4>1
      <4> QED BY <2>5, <4>1, <4>2 DEF MayLink
    <3>2. ASSUME NEW e \in Decs' \cup Vpps' PROVE <<e, e + 1>> \in links'
      <4>1. <<e, e + 1>> \in links
        BY <1>3, <2>5 DEF GInv, LinkInv
      <4> QED BY <2>5, <2>8, <3>0, <4>1
    <3>3. ASSUME NEW p \in enc_multimap_', p[1] # Null
          PROVE  <<p[1] + 1, p[2]>> \in links'
      <4>1. p \in enc_multimap_ /\ p[1] \in Vpps /\ p[2] # enc
        BY <2>2, <2>4, <3>3 DEF GInv, PairInv
      <4>2. <<p[1] + 1, p[2]>> \in links
        BY <1>3, <3>3, <4>1 DEF GInv, LinkInv
      <4> QED BY <2>8, <3>0, <4>1, <4>2
    <3> QED BY <1>1, <2>5, <3>1, <3>2, <3>3 DEF LinkInv
  <2>12. ThreadsFollowTheTranscoder'
    <3>1. Listed' = Listed \ {enc}
      <4>1. Listed = Decs \cup Vpps \cup Encs /\ Listed' = Decs' \cup Vpps' \cup Encs'
        BY DEF Listed, Decs, Vpps
      <4> QED BY <2>5, <2>7, <2>8, <4>1
    <3> QED
      BY <1>1, <1>3, <3>1 DEF StopElements, GInv, ThreadsFollowTheTranscoder
  <2>13. EndsInv'
    BY <1>1, <1>3 DEF GInv, EndsInv
  <2> QED BY <2>6, <2>9, <2>10, <2>11, <2>12, <2>13 DEF GInv
<1> QED
  BY <1>2, <1>3 DEF DetachOutput, Answer

LEMMA CleanUpKeeps ==
  ASSUME GInv, CleanUpResource
  PROVE  GInv'
<1>1. /\ live' = live \ Owned /\ StopElements(Owned)
      /\ links' = {l \in links : l[1] \notin Owned \/ l[2] \notin Owned}
      /\ enc_multimap_' = {} /\ vpp_dis_map_' = << >> /\ vpp_list_' = << >>
      /\ dec_dis_map_' = << >> /\ dec_list_' = << >> /\ del_dec_list_' = << >>
      /\ session_list_' = 0 /\ m_pAllocArray' = 0 /\ asked' = {}
      /\ xcoder' = [xcoder EXCEPT !.cleaned = TRUE, !.is_running_ = FALSE, !.render_ = Null]
      /\ UNCHANGED <<kind, lost, calls>>
  BY DEF CleanUpResource
<1>2. OwnedElements \subseteq Owned /\ Owned \subseteq OwnedElements \cup {Null}
  BY DEF Owned, OwnedElements, Listed, Decs, Vpps, Detached, Renders
<1>3. Decs' = {} /\ Vpps' = {} /\ Detached' = {} /\ Encs' = {} /\ Listed' = {}
  BY <1>1 DEF Decs, Vpps, Detached, Encs, Listed, ToSet
<1>4. ListInv'
  <2>1. \A S : << >> \in Seq(S)
    OBVIOUS
  <2>2. IsInjective(<< >>)
    BY DEF IsInjective
  <2>3. kind' \in Seq(ElementTypes)
    BY <1>1 DEF GInv, ListInv
  <2> QED BY <1>1, <1>3, <2>1, <2>2, <2>3, EmptyMap DEF ListInv
<1>5. /\ xcoder' \in XcoderStates /\ xcoder'.cleaned /\ ~xcoder'.is_running_
      /\ xcoder'.done_init_ = xcoder.done_init_ /\ Renders' = {}
  <2>1. Null \in Nat /\ xcoder \in XcoderStates
    BY DEF Null, GInv, EndsInv
  <2> QED BY <1>1, <2>1 DEF XcoderStates, Renders
<1>6. Nothing'
  <2>1. links' = {}
    BY <1>1, <1>2, LinksAreOwned
  <2> QED BY <1>1, <1>5, <2>1 DEF Nothing
<1>7. PairInv'
  BY <1>1, <1>3, <1>5 DEF PairInv
<1>8. LiveInv'
  <2>1. Dispatchers' = {}
    BY <1>3, <1>4, ListsAreSetsAfter DEF ListFacts
  <2>2. OwnedElements' = {}
    BY <1>3, <1>5, <2>1 DEF OwnedElements
  <2>3. Null \notin Elements /\ Elements' = Elements
    BY <1>1, ListsAreSets DEF GInv, ListFacts, KindFacts, Elements
  <2> QED BY <1>1, <1>2, <2>2, <2>3 DEF GInv, LiveInv
<1>9. LinkInv'
  BY <1>1, <1>3, <1>6 DEF LinkInv, Nothing
<1>10. threads' = {} /\ ThreadsFollowTheTranscoder'
  <2>1. threads \subseteq Listed
    BY DEF GInv, ThreadsFollowTheTranscoder
  <2>2. Listed \subseteq Owned
    BY DEF Owned
  <2> QED BY <1>1, <1>3, <1>5, <2>1, <2>2 DEF StopElements, ThreadsFollowTheTranscoder
<1>11. EndsInv'
  BY <1>1, <1>5, <1>6, <1>10 DEF GInv, EndsInv
<1> QED BY <1>4, <1>7, <1>8, <1>9, <1>10, <1>11 DEF GInv

-----------------------------------------------------------------------------
(* Every step. *)

LEMMA StepGInv == GInv /\ [GraphNext]_graphVars => GInv'
<1> SUFFICES ASSUME GInv, [GraphNext]_graphVars PROVE GInv'
  OBVIOUS
<1>1. ASSUME NEW withVpp \in BOOLEAN, NEW fei \in BOOLEAN, NEW output \in {"enc", "render"},
             NEW d \in DecCodecs, NEW c \in EncCodecs,
             XcoderInit(withVpp, output, d, c, fei)
      PROVE  GInv'
  BY <1>1, XcoderInitKeeps
<1>2. ASSUME NEW d, DetachInput(d) PROVE GInv'
  BY <1>2, DetachInputKeeps DEF DetachInput, Enter
<1>3. ASSUME NEW v, NEW d, AttachInput(v, d) PROVE GInv'
  BY <1>3, AttachInputKeeps DEF AttachInput, Enter
<1>4. ASSUME NEW v, DetachVpp(v) PROVE GInv'
  BY <1>4, DetachVppKeeps
<1>5. ASSUME NEW d, NEW c, AttachVpp(d, c, FALSE) PROVE GInv'
  BY <1>5, AttachVppKeeps
<1>6. ASSUME NEW withVpp \in BOOLEAN, NEW fei, NEW c, AttachVppOutput(withVpp, c, fei)
      PROVE  GInv'
  BY <1>6, AttachVppOutputKeeps
<1>7. ASSUME NEW v, NEW c, AttachOutput(v, c, FALSE) PROVE GInv'
  BY <1>7, AttachOutputKeeps
<1>8. ASSUME NEW e, DetachOutput(e) PROVE GInv'
  BY <1>8, DetachOutputKeeps
<1>9. ASSUME NEW h, NEW d, NEW inputs,
             \/ MarkLTR(h) \/ MarkRL(h) \/ ForceKeyFrame(h) \/ SetBitrate(h)
             \/ AppendEncoderROI(h) \/ SetResolution(h) \/ SetBackgroundColor(h)
             \/ SetKeepRatio(h) \/ SetComboType(h, d) \/ SetCustomLayout(h, inputs)
      PROVE  GInv'
  BY <1>9, RequestsKeep
<1>10. ASSUME NEW v, NEW d,
              \/ StringOperateAttach(v) \/ PicOperateAttach(v)
              \/ StringOperateDetach(v, d) \/ PicOperateDetach(v, d)
              \/ StringOperateChange(v, d) \/ PicOperateChange(v, d)
       PROVE  GInv'
  BY <1>10, WaitingKeeps
     DEF StringOperateAttach, PicOperateAttach, StringOperateDetach, PicOperateDetach,
         StringOperateChange, PicOperateChange
<1>11. CASE TimedGivesUp
  BY <1>11, WaitingKeeps
<1>12. CASE TimedDetach
  BY <1>12, DetachInputKeeps DEF TimedDetach, MayLock
<1>13. ASSUME NEW d, TimedAttach(d) PROVE GInv'
  BY <1>13, AttachInputKeeps DEF TimedAttach, MayLock
<1>14. CASE StartXcoder \/ JoinBegin \/ JoinEnd \/ StopXcoder
  BY <1>14, RunningKeeps
<1>15. CASE CleanUpResource
  BY <1>15, CleanUpKeeps
<1>16. ASSUME NEW v, VppEnds(v) PROVE GInv'
  BY <1>16, WaitingKeeps
<1>17. CASE UNCHANGED graphVars
  <2>1. UNCHANGED <<heap, workers, shape, del_dec_list_, drivers, xcoder, asked, lost, calls>>
    BY <1>17 DEF graphVars
  <2>2. ThreadsFollowTheTranscoder'
    BY <2>1 DEF GInv, ThreadsFollowTheTranscoder, Listed, Encs, workers, shape
  <2>3. calls' \in Nat /\ (calls' = 0 => calls = 0 /\ threads' = {} /\ ~xcoder'.is_running_)
    BY <2>1 DEF GInv, EndsInv, workers
  <2> QED
    BY <2>1, <2>2, <2>3, Keeps DEF heap, workers, shape, drivers, GInv, EndsInv, LiveInv
<1>18. CASE GraphNext
  BY <1>18, <1>1, <1>2, <1>3, <1>4, <1>5, <1>6, <1>7, <1>8, <1>9, <1>10, <1>11, <1>12,
     <1>13, <1>14, <1>15, <1>16
     DEF GraphNext
<1> QED BY <1>17, <1>18

LEMMA GraphInvariant == GraphSpec => []GInv
BY InitGInv, StepGInv, PTL DEF GraphSpec

-----------------------------------------------------------------------------
(* Types: only what the lists name may run; an allocator is deleted by a    *)
(* call, once.                                                              *)

InUse == Decs \cup Vpps \cup Encs \cup Dispatchers \cup Renders

GraphCounts ==
  /\ running \subseteq InUse
  /\ session_list_ \in Nat /\ m_pAllocArray \in Nat /\ freed \in Nat /\ freed <= calls

\* What a call may do to the lists: a decoder, a VPP and an encoder are there
\* afterwards unless they were stopped.
LEMMA RunningFollows ==
  ASSUME GInv, GInv', running \subseteq InUse, NEW Started, NEW Stopped,
         running' \subseteq (running \cup Started) \ Stopped, Started \subseteq InUse',
         Decs \subseteq Decs' \cup Stopped, Vpps \subseteq Vpps' \cup Stopped,
         Encs \subseteq Encs' \cup Stopped, Renders \subseteq Renders' \cup Stopped,
         \A e \in (Decs \cup Vpps) \ (Decs' \cup Vpps') : e + 1 \in Stopped
  PROVE  running' \subseteq InUse'
<1>1. /\ Dispatchers = {e + 1 : e \in Decs \cup Vpps}
      /\ Dispatchers' = {e + 1 : e \in Decs' \cup Vpps'}
  BY ListsAreSets, ListsAreSetsAfter DEF GInv, ListFacts
<1> QED BY <1>1 DEF InUse

\* The calls that leave the lists alone.
LEMMA SameLists ==
  UNCHANGED <<shape, xcoder>> \/ (UNCHANGED shape /\ xcoder'.render_ = xcoder.render_)
    => InUse' = InUse
BY DEF shape, InUse, Decs, Vpps, Encs, Dispatchers, Renders

LEMMA AppendsKeep ==
  ASSUME NEW s, NEW T, s \in Seq(T), NEW e
  PROVE  ToSet(s) \subseteq ToSet(Append(s, e)) /\ e \in ToSet(Append(s, e))
<1>1. s \in Seq(T \cup {e}) /\ e \in T \cup {e}
  OBVIOUS
<1> QED BY <1>1, ListGrows

LEMMA PairAdded ==
  ASSUME NEW v, NEW e, enc_multimap_' = enc_multimap_ \cup {<<v, e>>}
  PROVE  Encs' = Encs \cup {e}
<1>1. <<v, e>>[2] = e
  OBVIOUS
<1>2. ASSUME NEW x PROVE x \in Encs' <=> x \in Encs \cup {e}
  <2>1. x \in Encs' => x \in Encs \cup {e}
    BY <1>1 DEF Encs
  <2>2. x \in Encs => x \in Encs'
    BY DEF Encs
  <2>3. e \in Encs'
    BY <1>1 DEF Encs
  <2> QED BY <2>1, <2>2, <2>3
<1> QED BY <1>2

LEMMA RefusedCounts ==
  ASSUME GraphCounts, Refuse, calls \in Nat, UNCHANGED calls \/ calls' = calls + 1
  PROVE  GraphCounts'
BY SameLists DEF Refuse, workers, drivers, GraphCounts

LEMMA AttachInputCounts ==
  ASSUME GInv, GInv', GraphCounts, UNCHANGED calls \/ calls' = calls + 1,
         NEW vpp, NEW codec, AttachInputDo(vpp, codec)
  PROVE  GraphCounts'
<1> DEFINE dec == Len(kind) + 1
           dis == dec + 1
<1>0. calls \in Nat
  BY DEF GInv, EndsInv
<1>1. CASE Refuse
  BY <1>0, <1>1, RefusedCounts
<1>2. ASSUME UNCHANGED <<vpp_list_, vpp_dis_map_, enc_multimap_, freed, xcoder>>,
             UNCHANGED <<workers, dec_list_, dec_dis_map_, links>>,
             UNCHANGED drivers \/ CreateSessionAllocator(1)
      PROVE  GraphCounts'
  BY <1>0, <1>2, SameLists DEF shape, workers, drivers, CreateSessionAllocator, GraphCounts
<1>3. ASSUME UNCHANGED <<vpp_list_, vpp_dis_map_, enc_multimap_, freed, xcoder>>,
             CreateSessionAllocator(1), dec_list_' = Append(dec_list_, dec),
             StartIfRunning({dec}, {dis})
      PROVE  GraphCounts'
  <2>1. Decs \subseteq Decs' /\ dec \in Decs'
    BY <1>3, AppendsKeep DEF Decs, GInv, ListInv
  <2>2. Vpps' = Vpps /\ Encs' = Encs /\ Renders' = Renders
    BY <1>3 DEF Vpps, Encs, Renders
  <2>3. dis \in Dispatchers'
    BY <2>1, ListsAreSetsAfter DEF GInv, ListFacts
  <2>4. running' \subseteq (running \cup {dec, dis}) \ {}
    BY <1>3 DEF StartIfRunning, workers
  <2>5. {dec, dis} \subseteq InUse'
    BY <2>1, <2>3 DEF InUse
  <2> HIDE DEF dec, dis
  <2>6. running' \subseteq InUse'
    BY <2>1, <2>2, <2>4, <2>5, RunningFollows DEF GraphCounts
  <2> QED BY <1>0, <1>3, <2>6 DEF CreateSessionAllocator, GraphCounts
<1> QED
  BY <1>1, <1>2, <1>3 DEF AttachInputDo

LEMMA DetachInputCounts ==
  ASSUME GInv, GInv', GraphCounts, UNCHANGED calls \/ calls' = calls + 1,
         NEW dec, DetachInputDo(dec)
  PROVE  GraphCounts'
<1> DEFINE dis == dec_dis_map_[dec]
<1>0. calls \in Nat
  BY DEF GInv, EndsInv
<1>1. CASE Refuse
  BY <1>0, <1>1, RefusedCounts
<1>2. ASSUME dec \in ToSet(dec_list_), dec_list_' = Without(dec_list_, dec),
             StopElements({dec, dis}),
             UNCHANGED <<kind, vpp_list_, vpp_dis_map_, enc_multimap_, drivers, freed, xcoder>>
      PROVE  GraphCounts'
  <2>1. Decs' = Decs \ {dec} /\ dis = dec + 1
    BY <1>2, ListLoses DEF Decs, GInv, ListInv
  <2>2. Vpps' = Vpps /\ Encs' = Encs /\ Renders' = Renders
    BY <1>2 DEF Vpps, Encs, Renders
  <2>3. running' \subseteq (running \cup {}) \ {dec, dis}
    BY <1>2 DEF StopElements
  <2> HIDE DEF dis
  <2>4. running' \subseteq InUse'
    BY <2>1, <2>2, <2>3, RunningFollows DEF GraphCounts
  <2> QED BY <1>0, <1>2, <2>4 DEF drivers, GraphCounts
<1> QED
  BY <1>1, <1>2 DEF DetachInputDo

LEMMA DetachVppCounts ==
  ASSUME GInv, GInv', GraphCounts, NEW vpp, DetachVpp(vpp)
  PROVE  GraphCounts'
<1> DEFINE dis == vpp_dis_map_[vpp]
           encs == {p[2] : p \in {q \in enc_multimap_ : q[1] = vpp}}
<1>0. calls \in Nat /\ calls' = calls + 1
  BY DEF GInv, EndsInv, DetachVpp, Enter
<1>1. CASE Refuse
  BY <1>0, <1>1, RefusedCounts
<1>2. ASSUME vpp \in ToSet(vpp_list_), vpp_list_' = Without(vpp_list_, vpp),
             enc_multimap_' = {p \in enc_multimap_ : p[1] # vpp},
             StopElements({vpp, dis} \cup encs),
             UNCHANGED <<kind, dec_list_, dec_dis_map_, drivers, freed, xcoder>>
      PROVE  GraphCounts'
  <2>1. Vpps' = Vpps \ {vpp} /\ dis = vpp + 1
    BY <1>2, ListLoses DEF Vpps, GInv, ListInv
  <2>2. Decs' = Decs /\ Renders' = Renders
    BY <1>2 DEF Decs, Renders
  <2>3. Encs \subseteq Encs' \cup encs
    BY <1>2 DEF Encs
  <2>4. running' \subseteq (running \cup {}) \ ({vpp, dis} \cup encs)
    BY <1>2 DEF StopElements
  <2> HIDE DEF dis, encs
  <2>5. running' \subseteq InUse'
    <3>1. /\ Decs \subseteq Decs' \cup ({vpp, dis} \cup encs)
          /\ Vpps \subseteq Vpps' \cup ({vpp, dis} \cup encs)
          /\ Encs \subseteq Encs' \cup ({vpp, dis} \cup encs)
          /\ Renders \subseteq Renders' \cup ({vpp, dis} \cup encs)
          /\ \A e \in (Decs \cup Vpps) \ (Decs' \cup Vpps') : e + 1 \in {vpp, dis} \cup encs
      BY <2>1, <2>2, <2>3
    <3> QED BY <2>4, <3>1, RunningFollows DEF GraphCounts
  <2> QED BY <1>0, <1>2, <2>5 DEF drivers, GraphCounts
<1> QED
  BY <1>1, <1>2 DEF DetachVpp

\* Encoders and VPPs that were there stay, and the new ones are in the lists.
LEMMA AttachVppCounts ==
  ASSUME GInv, GInv', GraphCounts, NEW dcodec, NEW ecodec, NEW fei,
         AttachVpp(dcodec, ecodec, fei)
  PROVE  GraphCounts'
<1> DEFINE vpp == Len(kind) + 1
           dec == Len(kind) + 4
<1>0. calls \in Nat /\ calls' = calls + 1
  BY DEF GInv, EndsInv, AttachVpp, Enter
<1>1. CASE Refuse
  BY <1>0, <1>1, RefusedCounts
<1>2. ASSUME UNCHANGED <<workers, shape, xcoder, freed>>, NEW got \in Nat,
             CreateSessionAllocator(got)
      PROVE  GraphCounts'
  BY <1>0, <1>2, SameLists DEF shape, workers, CreateSessionAllocator, GraphCounts
<1>3. ASSUME UNCHANGED <<xcoder, freed>>, CreateSessionAllocator(3),
             dec_list_' = Append(dec_list_, dec), vpp_list_' = Append(vpp_list_, vpp),
             enc_multimap_' = enc_multimap_ \cup {<<vpp, vpp + 2>>},
             StartIfRunning({vpp + 2, vpp, dec}, {vpp + 1, dec + 1})
      PROVE  GraphCounts'
  <2>1. Decs \subseteq Decs' /\ dec \in Decs' /\ Vpps \subseteq Vpps' /\ vpp \in Vpps'
    BY <1>3, AppendsKeep DEF Decs, Vpps, GInv, ListInv
  <2>2. Encs' = Encs \cup {vpp + 2} /\ Renders' = Renders
    <3> HIDE DEF vpp
    <3> QED BY <1>3, PairAdded DEF Renders
  <2>3. vpp + 1 \in Dispatchers' /\ dec + 1 \in Dispatchers'
    BY <2>1, ListsAreSetsAfter DEF GInv, ListFacts
  <2> DEFINE New == {vpp + 2, vpp, dec} \cup {vpp + 1, dec + 1}
  <2>4. running' \subseteq (running \cup New) \ {}
    BY <1>3 DEF StartIfRunning, workers
  <2>5. New \subseteq InUse'
    BY <2>1, <2>2, <2>3 DEF InUse
  <2> HIDE DEF New
  <2>6. running' \subseteq InUse'
    BY <2>1, <2>2, <2>4, <2>5, RunningFollows DEF GraphCounts
  <2> QED BY <1>0, <1>3, <2>6 DEF CreateSessionAllocator, GraphCounts
<1> QED
  BY <1>1, <1>2, <1>3 DEF AttachVpp

LEMMA AttachVppOutputCounts ==
  ASSUME GInv, GInv', GraphCounts, NEW withVpp \in BOOLEAN, NEW ecodec, NEW fei,
         AttachVppOutput(withVpp, ecodec, fei)
  PROVE  GraphCounts'
<1> DEFINE first == Len(kind) + 1
           enc == IF withVpp THEN first + 2 ELSE first
           made == IF withVpp THEN <<"VPP", "DIS">> ELSE << >>
           type == EncElement(ecodec, fei)
           pairs == IF withVpp THEN 2 ELSE 1
<1>0. calls \in Nat /\ calls' = calls + 1 /\ first \in Nat /\ pairs \in Nat
  BY DEF GInv, EndsInv, ListInv, AttachVppOutput, Enter
<1>1. CASE Refuse
  BY <1>0, <1>1, RefusedCounts
<1>2. ASSUME UNCHANGED <<dec_list_, dec_dis_map_, xcoder>>,
             AttachVppOutputHalfway(withVpp, made, type, fei)
      PROVE  GraphCounts'
  <2>1. UNCHANGED <<workers, shape>>
    BY <1>2 DEF AttachVppOutputHalfway, shape
  <2>2. InUse' = InUse
    BY <1>2, <2>1, SameLists
  <2>3. session_list_' \in Nat /\ m_pAllocArray' \in Nat /\ freed' \in {freed, freed + 1}
    BY <1>0, <1>2 DEF AttachVppOutputHalfway, GraphCounts, drivers
  <2> QED BY <1>0, <2>1, <2>2, <2>3 DEF workers, GraphCounts
<1>3. ASSUME UNCHANGED <<dec_list_, dec_dis_map_, xcoder, freed>>,
             session_list_' \in {session_list_ + pairs,
                                 session_list_ + pairs + IF fei THEN 1 ELSE 0},
             m_pAllocArray' = m_pAllocArray + pairs,
             vpp_list_' = IF withVpp THEN Append(vpp_list_, first) ELSE vpp_list_,
             enc_multimap_' = enc_multimap_ \cup {<<IF withVpp THEN first ELSE Null, enc>>},
             StartIfRunning({first, enc}, first + 1 .. enc - 1)
      PROVE  GraphCounts'
  <2>1. Decs' = Decs /\ Renders' = Renders /\ Encs' = Encs \cup {enc}
    <3> HIDE DEF enc, first
    <3> QED BY <1>3, PairAdded DEF Decs, Renders
  <2>2. Vpps \subseteq Vpps' /\ (withVpp => first \in Vpps')
    BY <1>3, AppendsKeep DEF Vpps, GInv, ListInv
  <2>3. first + 1 .. enc - 1 = IF withVpp THEN {first + 1} ELSE {}
    <3>1. CASE withVpp
      <4>1. enc - 1 = first + 1 /\ first + 1 \in Int
        BY <1>0, <3>1
      <4> HIDE DEF enc, first
      <4> QED BY <3>1, <4>1
    <3>2. CASE ~withVpp
      <4>1. enc = first
        BY <3>2
      <4> HIDE DEF enc, first
      <4> QED BY <1>0, <3>2, <4>1
    <3> QED BY <3>1, <3>2
  <2>4. withVpp => first + 1 \in Dispatchers'
    BY <2>2, ListsAreSetsAfter DEF GInv, ListFacts
  <2>5. ~withVpp => enc = first
    OBVIOUS
  <2> DEFINE New == {first, enc} \cup (first + 1 .. enc - 1)
  <2>6. running' \subseteq (running \cup New) \ {}
    BY <1>3 DEF StartIfRunning, workers
  <2> HIDE DEF enc, first
  <2>7. New \subseteq InUse'
    BY <2>1, <2>2, <2>3, <2>4, <2>5 DEF InUse
  <2> HIDE DEF New
  <2>8. running' \subseteq InUse'
    BY <2>1, <2>2, <2>6, <2>7, RunningFollows DEF GraphCounts
  <2>9. session_list_' \in Nat /\ m_pAllocArray' \in Nat
    BY <1>0, <1>3 DEF GraphCounts
  <2> QED BY <1>0, <1>3, <2>8, <2>9 DEF GraphCounts
<1> QED
  BY <1>1, <1>2, <1>3 DEF AttachVppOutput

LEMMA AttachOutputCounts ==
  ASSUME GInv, GInv', GraphCounts, NEW vpp, NEW ecodec, NEW fei,
         AttachOutput(vpp, ecodec, fei)
  PROVE  GraphCounts'
<1> DEFINE enc == Len(kind) + 1
<1>0. /\ calls \in Nat /\ calls' = calls + 1
      /\ UNCHANGED <<xcoder, freed, dec_list_, vpp_list_, dec_dis_map_, vpp_dis_map_>>
  BY DEF GInv, EndsInv, AttachOutput, Enter
<1>1. ASSUME UNCHANGED <<workers, enc_multimap_, links>>,
             UNCHANGED drivers \/ CreateSessionAllocator(1)
      PROVE  GraphCounts'
  BY <1>0, <1>1, SameLists DEF shape, workers, drivers, CreateSessionAllocator, GraphCounts
<1>2. ASSUME CreateSessionAllocator(1), StartIfRunning({enc}, {}),
             enc_multimap_' = enc_multimap_ \cup {<<vpp, enc>>}
      PROVE  GraphCounts'
  <2>1. Decs' = Decs /\ Vpps' = Vpps /\ Renders' = Renders /\ Encs' = Encs \cup {enc}
    <3> HIDE DEF enc
    <3> QED BY <1>0, <1>2, PairAdded DEF Decs, Vpps, Renders
  <2>2. running' \subseteq (running \cup {enc}) \ {}
    BY <1>2 DEF StartIfRunning, workers
  <2>3. {enc} \subseteq InUse'
    BY <2>1 DEF InUse
  <2> HIDE DEF enc
  <2>4. running' \subseteq InUse'
    BY <2>1, <2>2, <2>3, RunningFollows DEF GraphCounts
  <2> QED BY <1>0, <1>2, <2>4 DEF CreateSessionAllocator, GraphCounts
<1> QED
  BY <1>1, <1>2 DEF AttachOutput

LEMMA DetachOutputCounts ==
  ASSUME GInv, GInv', GraphCounts, NEW enc, DetachOutput(enc)
  PROVE  GraphCounts'
<1>0. /\ calls \in Nat /\ calls' = calls + 1
      /\ UNCHANGED <<xcoder, freed, dec_list_, vpp_list_, dec_dis_map_, vpp_dis_map_, drivers>>
  BY DEF GInv, EndsInv, DetachOutput, Enter
<1>1. ASSUME UNCHANGED <<workers, enc_multimap_, links>> PROVE GraphCounts'
  BY <1>0, <1>1, SameLists DEF shape, workers, drivers, GraphCounts
<1>2. ASSUME NEW found, found \subseteq {p \in enc_multimap_ : p[2] = enc},
             enc_multimap_' = enc_multimap_ \ found, StopElements({enc})
      PROVE  GraphCounts'
  <2>1. Decs' = Decs /\ Vpps' = Vpps /\ Renders' = Renders /\ Encs \subseteq Encs' \cup {enc}
    BY <1>0, <1>2 DEF Decs, Vpps, Renders, Encs
  <2>2. running' \subseteq (running \cup {}) \ {enc}
    BY <1>2 DEF StopElements
  <2>3. running' \subseteq InUse'
    BY <2>1, <2>2, RunningFollows DEF GraphCounts
  <2> QED BY <1>0, <2>3 DEF drivers, GraphCounts
<1> DEFINE siblings(p) == {q \in enc_multimap_ : q[1] = p[1]}
           found == {p \in enc_multimap_ : p[2] = enc /\ Cardinality(siblings(p)) > 1}
<1>3. \/ UNCHANGED <<workers, enc_multimap_, links>>
      \/ enc_multimap_' = enc_multimap_ \ found /\ StopElements({enc})
  BY DEF DetachOutput
<1>4. found \subseteq {p \in enc_multimap_ : p[2] = enc}
  OBVIOUS
<1> HIDE DEF found
<1> QED
  BY <1>1, <1>2, <1>3, <1>4

LEMMA XcoderInitCounts ==
  ASSUME GInv, GInv', GraphCounts, NEW withVpp \in BOOLEAN, NEW fei \in BOOLEAN,
         NEW output, NEW d, NEW c, XcoderInit(withVpp, output, d, c, fei)
  PROVE  GraphCounts'
<1>0. calls = 0 /\ calls' = 1
  BY DEF XcoderInit, Enter
<1>1. CASE Refuse
  BY <1>0, <1>1, RefusedCounts
<1>2. running = {}
  <2>1. Decs = {} /\ Vpps = {} /\ Encs = {} /\ Renders = {}
    BY <1>0 DEF GInv, EndsInv, Nothing, Decs, Vpps, Encs, ToSet
  <2> QED BY <2>1, ListsAreSets DEF GraphCounts, InUse, GInv, ListFacts
<1>3. ASSUME NEW got \in 0 .. 4, InitFails(withVpp, output, d, got)
      PROVE  GraphCounts'
  <2>1. UNCHANGED <<workers, freed>> /\ session_list_' = got /\ m_pAllocArray' = Max({got - 1, 0})
    BY <1>3 DEF InitFails
  <2>2. {got - 1, 0} \subseteq Int /\ Max({got - 1, 0}) \in Nat
    <3>1. CASE got = 0
      <4>1. \A x \in {got - 1, 0} : 0 >= x
        BY <3>1
      <4>2. Max({got - 1, 0}) \in {got - 1, 0} /\ Max({got - 1, 0}) >= 0
        BY <3>1, <4>1 DEF Max
      <4> QED BY <3>1, <4>2
    <3>2. CASE got # 0
      <4>1. {got - 1, 0} \subseteq Nat /\ got - 1 \in Nat /\ \A x \in {got - 1, 0} : x <= got - 1
        BY <3>2
      <4> HIDE DEF Max
      <4>2. Max({got - 1, 0}) \in {got - 1, 0}
        BY <4>1, MaxIsAMember
      <4> QED BY <4>1, <4>2
    <3> QED BY <3>1, <3>2
  <2> QED BY <1>0, <1>2, <2>1, <2>2 DEF workers, GraphCounts
<1>4. ASSUME NEW extra \in {0, 1}, InitSucceeds(withVpp, output, d, c, fei, extra)
      PROVE  GraphCounts'
  <2>1. UNCHANGED <<workers, freed>> /\ session_list_' \in Nat /\ m_pAllocArray' \in Nat
    BY <1>4 DEF InitSucceeds
  <2> QED BY <1>0, <1>2, <2>1 DEF workers, GraphCounts
<1> QED
  BY <1>1, <1>3, <1>4 DEF XcoderInit

\* The calls that change no list, and those that only stop.
LEMMA RestCounts ==
  ASSUME GInv, GraphCounts, UNCHANGED <<shape, freed, drivers>>,
         xcoder'.render_ = xcoder.render_, calls' \in {calls, calls + 1},
         running' \subseteq running \cup Listed \cup Dispatchers \cup Renders
  PROVE  GraphCounts'
<1>1. InUse' = InUse
  BY SameLists
<1>2. Listed \cup Dispatchers \cup Renders \subseteq InUse /\ calls \in Nat
  BY DEF Listed, Decs, Vpps, InUse, GInv, EndsInv
<1> QED BY <1>1, <1>2 DEF GraphCounts, drivers

LEMMA CleanUpCounts ==
  ASSUME GInv, GraphCounts, CleanUpResource
  PROVE  GraphCounts'
<1>1. InUse \subseteq Owned
  BY DEF InUse, Owned, Listed, Decs, Vpps, Renders
<1>2. running' = {} /\ session_list_' = 0 /\ m_pAllocArray' = 0 /\ UNCHANGED <<freed, calls>>
  BY <1>1 DEF CleanUpResource, StopElements, GraphCounts
<1> QED BY <1>2 DEF GraphCounts

LEMMA StepCounts ==
  ASSUME GInv, GInv', GraphCounts, [GraphNext]_graphVars
  PROVE  GraphCounts'
<1>0. xcoder \in XcoderStates /\ calls \in Nat
  BY DEF GInv, EndsInv
<1>1. ASSUME NEW S, NEW r, Ask(S, r) PROVE GraphCounts'
  BY <1>1, RestCounts DEF Ask, Enter, workers, drivers
<1>2. ASSUME NEW h, NEW d, NEW inputs,
             \/ MarkLTR(h) \/ MarkRL(h) \/ ForceKeyFrame(h) \/ SetBitrate(h)
             \/ AppendEncoderROI(h) \/ SetResolution(h) \/ SetBackgroundColor(h)
             \/ SetKeepRatio(h) \/ SetComboType(h, d) \/ SetCustomLayout(h, inputs)
      PROVE  GraphCounts'
  <2>1. \E S, r : Ask(S, r)
    BY <1>2 DEF MarkLTR, MarkRL, MarkReference, ForceKeyFrame, SetBitrate, AppendEncoderROI,
                AskEncoder, SetResolution, SetBackgroundColor, SetKeepRatio, AskVpp,
                SetComboType, SetCustomLayout
  <2> QED BY <1>1, <2>1
<1>3. ASSUME NEW op, NEW v, NEW d, TimedBegin(op, v, d) PROVE GraphCounts'
  BY <1>3, RestCounts DEF TimedBegin, workers
<1>4. ASSUME TimedGivesUp \/ \E v : VppEnds(v) PROVE GraphCounts'
  BY <1>4, RestCounts DEF TimedGivesUp, VppEnds, workers
<1>5. ASSUME StartXcoder \/ JoinBegin \/ JoinEnd \/ StopXcoder PROVE GraphCounts'
  <2>1. UNCHANGED <<shape, freed, drivers>> /\ calls' \in {calls, calls + 1}
    BY <1>5 DEF StartXcoder, JoinBegin, JoinEnd, StopXcoder, Enter
  <2>2. xcoder'.render_ = xcoder.render_
    BY <1>0, <1>5 DEF StartXcoder, JoinBegin, JoinEnd, StopXcoder, XcoderStates
  <2>3. running' \subseteq running \cup Listed \cup Dispatchers \cup Renders
    BY <1>5 DEF StartXcoder, JoinBegin, JoinEnd, StopXcoder, StopElements, workers, Renders
  <2> QED BY <2>1, <2>2, <2>3, RestCounts
<1>6. CASE UNCHANGED graphVars
  BY <1>6, RestCounts DEF graphVars, workers
<1>7. ASSUME NEW d, DetachInput(d) PROVE GraphCounts'
  BY <1>7, DetachInputCounts DEF DetachInput, Enter
<1>8. ASSUME NEW v, NEW d, AttachInput(v, d) PROVE GraphCounts'
  BY <1>8, AttachInputCounts DEF AttachInput, Enter
<1>9. CASE TimedDetach
  BY <1>9, DetachInputCounts DEF TimedDetach
<1>10. ASSUME NEW d, TimedAttach(d) PROVE GraphCounts'
  BY <1>10, AttachInputCounts DEF TimedAttach
<1>11. CASE GraphNext
  BY <1>11, <1>2, <1>3, <1>4, <1>5, <1>7, <1>8, <1>9, <1>10, XcoderInitCounts,
     DetachVppCounts, AttachVppCounts, AttachVppOutputCounts, AttachOutputCounts,
     DetachOutputCounts, CleanUpCounts
     DEF GraphNext, StringOperateAttach, PicOperateAttach, StringOperateDetach,
         PicOperateDetach, StringOperateChange, PicOperateChange
<1> QED BY <1>6, <1>11

LEMMA GInvHasTypes == GInv /\ GraphCounts => GraphTypeOK
<1> SUFFICES ASSUME GInv, GraphCounts PROVE GraphTypeOK
  OBVIOUS
<1>1. KindFacts /\ Encs \subseteq EncElements /\ Renders \subseteq RenderElements
      /\ Decs \cup Vpps \cup Detached \cup Dispatchers \subseteq Elements
  BY ListsAreSets DEF GInv, PairInv, Encs, ListFacts, KindFacts
<1>2. OwnedElements \subseteq Elements /\ live \subseteq Elements
  BY <1>1 DEF OwnedElements, KindFacts, GInv, LiveInv
<1>3. running \subseteq live /\ threads \subseteq live
  BY DEF GraphCounts, InUse, GInv, LiveInv, OwnedElements, ThreadsFollowTheTranscoder,
         Listed, Decs, Vpps
<1>4. enc_multimap_ \subseteq ({Null} \cup Elements) \X Elements
  BY <1>1 DEF GInv, PairInv, KindFacts
<1>5. links \subseteq Elements \X Elements
  BY DEF GInv, LinkInv
<1>6. freed \in 0 .. m_pAllocArray + calls
  BY DEF GraphCounts, GInv, EndsInv
<1> QED
  BY <1>2, <1>3, <1>4, <1>5, <1>6
     DEF GraphTypeOK, GraphCounts, GInv, ListInv, ElementTypes

-----------------------------------------------------------------------------
(* The theorems. *)

LEMMA GInvIsWhole == GInv => GraphIsWhole
<1> SUFFICES ASSUME GInv PROVE GraphIsWhole
  OBVIOUS
<1>1. Listed \cup Dispatchers \cup ToSet(del_dec_list_) \cup asked \subseteq live
  BY DEF GInv, LiveInv, OwnedElements, Listed, Decs, Vpps, Detached
<1>2. /\ ToSet(dec_list_) \cap ToSet(del_dec_list_) = {}
      /\ DOMAIN dec_dis_map_ = ToSet(dec_list_) /\ IsInjective(dec_list_)
      /\ DOMAIN vpp_dis_map_ = ToSet(vpp_list_) /\ IsInjective(vpp_list_)
      /\ \A d \in ToSet(dec_list_) : dec_dis_map_[d] = d + 1
      /\ \A v \in ToSet(vpp_list_) : vpp_dis_map_[v] = v + 1
  BY DEF GInv, ListInv, Decs, Vpps, Detached
<1>3. \A l \in links : l[1] \in live /\ l[2] \in live
  BY LinksAreOwned DEF GInv, LiveInv
<1>4. ASSUME xcoder.done_init_, NEW p \in enc_multimap_, p[1] # Null
      PROVE  <<vpp_dis_map_[p[1]], p[2]>> \in links
  <2>1. p[1] \in ToSet(vpp_list_)
    BY <1>4 DEF GInv, PairInv, Vpps
  <2> QED BY <1>2, <1>4, <2>1 DEF GInv, LinkInv
<1>5. xcoder.done_init_ =>
        /\ \A d \in ToSet(dec_list_) : <<d, dec_dis_map_[d]>> \in links
        /\ \A v \in ToSet(vpp_list_) : <<v, vpp_dis_map_[v]>> \in links
        /\ xcoder.m_bRender_ \/ xcoder.cleaned \/ enc_multimap_ # {}
  BY <1>2 DEF GInv, LinkInv, PairInv, Decs, Vpps
<1> QED BY <1>1, <1>2, <1>3, <1>4, <1>5 DEF GraphIsWhole

LEMMA GInvDeletesAll == GInv => CleanUpDeletesAll
<1> SUFFICES ASSUME GInv, xcoder.cleaned
             PROVE  /\ live = lost /\ links = {} /\ threads = {}
                    /\ session_list_ = 0 /\ m_pAllocArray = 0
  BY DEF CleanUpDeletesAll
<1>1. Nothing /\ session_list_ = 0 /\ m_pAllocArray = 0
  BY DEF GInv, EndsInv
<1>2. Decs = {} /\ Vpps = {} /\ Detached = {} /\ Encs = {} /\ Listed = {}
  BY <1>1 DEF Nothing, Decs, Vpps, Detached, Encs, Listed, ToSet
<1>3. OwnedElements = {}
  BY <1>1, <1>2, ListsAreSets DEF Nothing, OwnedElements, GInv, ListFacts
<1> QED
  BY <1>1, <1>2, <1>3 DEF Nothing, GInv, LiveInv, ThreadsFollowTheTranscoder

\* What the lists and maps of MsdkXcoder say of its elements is true after any
\* sequence of calls, failed ones and timed ones included, with any number of
\* elements: nothing in them is deleted, nothing is in them twice, each decoder
\* and VPP leads to its dispatcher and each encoder hangs on that of its VPP.
THEOREM GraphStaysWhole == GraphSpec => []GraphIsWhole
<1>1. GInv => GraphIsWhole
  BY GInvIsWhole
<1> QED BY GraphInvariant, <1>1, PTL

\* Start, Stop, Join and the calls that change a running graph agree on who
\* has a thread: all listed elements while the transcoder runs, no other ever.
THEOREM ThreadsAreTheListed == GraphSpec => []ThreadsFollowTheTranscoder
<1>1. GInv => ThreadsFollowTheTranscoder
  BY DEF GInv
<1> QED BY GraphInvariant, <1>1, PTL

\* CleanUpResource deletes everything but what DetachVpp and failed calls
\* dropped from every list.
THEOREM CleanUpIsComplete == GraphSpec => []CleanUpDeletesAll
<1>1. GInv => CleanUpDeletesAll
  BY GInvDeletesAll
<1> QED BY GraphInvariant, <1>1, PTL

\* The lists, pairs and links of the transcoder are made of elements it created,
\* nothing that was deleted runs, and the numbers of sessions and allocators
\* are numbers, whatever the calls were and however often they failed.
THEOREM GraphStaysTyped == GraphSpec => []GraphTypeOK
<1>1. GraphInit => GraphCounts
  BY DEF GraphInit, GraphCounts
<1>2. GInv /\ GInv' /\ GraphCounts /\ [GraphNext]_graphVars => GraphCounts'
  BY StepCounts
<1> QED BY GraphInvariant, <1>1, <1>2, GInvHasTypes, PTL DEF GraphSpec
=============================================================================
