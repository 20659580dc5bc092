----------------------- MODULE ReferenceContractProofs -----------------------
(***************************************************************************)
(* Theorems about ReferenceContract for any files, regexes, proposals and  *)
(* profiles: anchors that cut chunks were executed on the document, the    *)
(* stored contract is the one chunks were cut by, the page's badge tells   *)
(* what uploading does, and the page offers only its own file's analysis.  *)
(***************************************************************************)
EXTENDS ReferenceContract, FiniteSetTheorems, WellFoundedInduction, TLAPS

-----------------------------------------------------------------------------
(* The first of the best *)

Better(value, i) ==
    {j \in DOMAIN value : value[j] > value[i] \/ (value[j] = value[i] /\ j < i)}

\* Where there are values, one of them is best: FirstBest chooses a position.
\* That no chain of better and better positions goes on for ever is the
\* well-foundedness of the strict inclusion of finite sets.
LEMMA FirstBestExists ==
    ASSUME NEW S \in SUBSET Nat, IsFiniteSet(S), S # {}, NEW value \in [S -> Nat]
    PROVE  /\ FirstBest(value) \in S
           /\ \A j \in S : \/ value[FirstBest(value)] > value[j]
                           \/ value[FirstBest(value)] = value[j] /\ FirstBest(value) <= j
<1> DEFINE T == {Better(value, i) : i \in S}
<1>1. \A i \in S : Better(value, i) \in FiniteSubsetsOf(S)
  <2>1. \A i \in S : Better(value, i) \in SUBSET S
    BY DEF Better
  <2> QED BY <2>1, FS_Subset DEF FiniteSubsetsOf
<1>2. T \subseteq FiniteSubsetsOf(S) /\ T # {}
  BY <1>1
<1>3. IsWellFoundedOn(StrictSubsetOrdering(S), FiniteSubsetsOf(S))
  BY FS_StrictSubsetOrderingWellFounded
<1>4. \E x \in T : \A y \in T : ~ (<<y, x>> \in StrictSubsetOrdering(S))
  BY <1>2, <1>3, WFMin
<1>5. PICK i \in S : \A j \in S :
        ~ (<<Better(value, j), Better(value, i)>> \in StrictSubsetOrdering(S))
  BY <1>4
<1>6. Better(value, i) = {}
  <2> SUFFICES ASSUME NEW j \in Better(value, i) PROVE FALSE
    OBVIOUS
  <2>1. j \in S /\ i \in Nat /\ j \in Nat /\ \A k \in S : k \in Nat /\ value[k] \in Nat
    BY DEF Better
  <2>2. Better(value, j) \subseteq Better(value, i)
    <3>1. value[j] > value[i] \/ (value[j] = value[i] /\ j < i)
      BY DEF Better
    <3>2. ASSUME NEW k \in Better(value, j) PROVE k \in Better(value, i)
      <4>1. k \in S /\ (value[k] > value[j] \/ (value[k] = value[j] /\ k < j))
        BY DEF Better
      <4>2. value[k] > value[i] \/ (value[k] = value[i] /\ k < i)
        BY <2>1, <3>1, <4>1
      <4> QED BY <4>1, <4>2 DEF Better
    <3> QED BY <3>2
  <2>3. j \notin Better(value, j)
    BY <2>1 DEF Better
  <2>4. <<Better(value, j), Better(value, i)>> \in StrictSubsetOrdering(S)
    BY <2>2, <2>3 DEF StrictSubsetOrdering, Better
  <2> QED BY <1>5, <2>1, <2>4
<1>7. \A j \in S : value[i] > value[j] \/ (value[i] = value[j] /\ i <= j)
  <2> SUFFICES ASSUME NEW j \in S
               PROVE  value[i] > value[j] \/ (value[i] = value[j] /\ i <= j)
    OBVIOUS
  <2>1. i \in Nat /\ j \in Nat /\ value[i] \in Nat /\ value[j] \in Nat
    OBVIOUS
  <2>2. ~(value[j] > value[i]) /\ ~(value[j] = value[i] /\ j < i)
    BY <1>6 DEF Better
  <2> QED BY <2>1, <2>2
<1> QED BY <1>7 DEF FirstBest

\* The least position, as _selected_execution_extractor finds it.
LEMMA LeastExists ==
    ASSUME NEW S \in SUBSET Nat, IsFiniteSet(S), S # {}
    PROVE  \E i \in S : \A j \in S : i <= j
<1> DEFINE zero == [i \in S |-> 0]
<1>1. zero \in [S -> Nat]
  OBVIOUS
<1>2. FirstBest(zero) \in S /\ \A j \in S :
        zero[FirstBest(zero)] > zero[j] \/ (zero[FirstBest(zero)] = zero[j] /\ FirstBest(zero) <= j)
  BY <1>1, FirstBestExists
<1>3. \A j \in S : zero[j] = 0
  OBVIOUS
<1> HIDE DEF zero
<1>4. ASSUME NEW j \in S PROVE FirstBest(zero) <= j
  <2>1. zero[FirstBest(zero)] = 0 /\ zero[j] = 0
    BY <1>2, <1>3
  <2> QED BY <1>2, <2>1
<1> QED BY <1>2, <1>4

-----------------------------------------------------------------------------
(* Records and what compiling leaves of them *)

\* Contracts by their positions, after some have been dropped.
Lists == UNION {[P -> Contracts] : P \in {Q \in SUBSET Nat : IsFiniteSet(Q)}}
Validations == [status : Statuses, extractor : Extractors \cup {<<>>}]

Records ==
    [schema : Schemas, anchors : Anchorings, units : {"absent", "off", "on"},
     chunkUnit : BOOLEAN, contracts : Lists, execution : Statuses,
     validation : Validations]

\* An absent anchor is not verified, and what is there may be run.
Clean(a) ==
    \A k \in AnchorKinds :
        /\ a[k].regex \in Safe \cup {None}
        /\ a[k].regex = None => ~a[k].verified

\* What compiling leaves alone.
Same(c, m) ==
    /\ c.schema = m.schema /\ c.contracts = m.contracts
    /\ c.execution = m.execution /\ c.validation = m.validation

Unverified(a) == \A k \in AnchorKinds : ~a[k].verified

\* The verified anchors are those of an extractor.
HeldBy(a, e) ==
    \/ /\ Len(e) = 1
       /\ a["primary"] = [regex |-> e[1], verified |-> TRUE]
       /\ ~a["context"].verified /\ ~a["unit"].verified
    \/ /\ Len(e) = 2 /\ ~a["primary"].verified
       /\ a["context"] = [regex |-> e[1], verified |-> TRUE]
       /\ a["unit"] = [regex |-> e[2], verified |-> TRUE]

LEMMA DemotedAnchors ==
    ASSUME NEW a \in Anchorings
    PROVE  /\ Demoted(a) \in Anchorings /\ Unverified(Demoted(a))
           /\ \A k \in AnchorKinds : Demoted(a)[k].regex = a[k].regex
           /\ Clean(a) => Clean(Demoted(a))
<1>1. ASSUME NEW k \in AnchorKinds
      PROVE  /\ [a[k] EXCEPT !.verified = FALSE] \in Anchors
             /\ [a[k] EXCEPT !.verified = FALSE].regex = a[k].regex
             /\ ~[a[k] EXCEPT !.verified = FALSE].verified
  <2>1. a[k] \in Anchors
    BY DEF Anchorings
  <2> QED BY <2>1 DEF Anchors
<1>2. /\ Demoted(a) \in Anchorings
      /\ \A k \in AnchorKinds : Demoted(a)[k].regex = a[k].regex /\ ~Demoted(a)[k].verified
  BY <1>1 DEF Demoted, Anchorings
<1> QED BY <1>2 DEF Unverified, Clean

LEMMA DemotedFields ==
    ASSUME NEW m \in Records
    PROVE  LET c == DemotedContract(m)
           IN /\ c \in Records /\ Same(c, m) /\ c.chunkUnit = m.chunkUnit
              /\ c.anchors = Demoted(m.anchors)
              /\ c.units = IF m.units = "absent" THEN "absent" ELSE "off"
<1>1. m.anchors \in Anchorings
  BY DEF Records
<1> QED BY <1>1, DemotedAnchors DEF DemotedContract, Records, Same

\* The two forms of an extractor.
LEMMA ExtractorForms ==
    ASSUME NEW e \in Extractors
    PROVE  \/ \E r \in DOMAIN Groups : e = <<r>> /\ Anchoring(e) = <<"primary">>
           \/ \E r, u \in DOMAIN Groups : e = <<r, u>> /\ Anchoring(e) = <<"context", "unit">>
BY DEF Extractors, Anchoring

\* Writing an extractor to unverified anchors makes it the one that holds them.
LEMMA WrittenAnchors ==
    ASSUME NEW a \in Anchorings, NEW e \in Extractors
    PROVE  /\ Written(a, e) \in Anchorings
           /\ Stands(Written(a, e), e)
           /\ Unverified(a) => HeldBy(Written(a, e), e)
           /\ Clean(a) /\ Range(e) \subseteq Safe /\ None \notin Safe => Clean(Written(a, e))
           /\ \E k \in AnchorKinds : Written(a, e)[k].regex \in DOMAIN Groups
<1>0. \A k \in AnchorKinds : a[k].regex \in DOMAIN Groups \cup {None} /\ a[k].verified \in BOOLEAN
  BY DEF Anchorings, Anchors
<1> DEFINE w == Written(a, e)
<1>1. CASE \E r \in DOMAIN Groups : e = <<r>> /\ Anchoring(e) = <<"primary">>
  <2>1. PICK r \in DOMAIN Groups : e = <<r>> /\ Anchoring(e) = <<"primary">>
    BY <1>1
  <2>2. w = [a EXCEPT !["primary"] = [regex |-> r, verified |-> TRUE]]
    BY <2>1 DEF Written, Run
  <2>3. w \in Anchorings
    <3>1. [regex |-> r, verified |-> TRUE] \in Anchors
      BY DEF Anchors
    <3> QED BY <2>2, <3>1 DEF Anchorings
  <2>4. /\ w["primary"] = [regex |-> r, verified |-> TRUE]
        /\ w["context"] = a["context"] /\ w["unit"] = a["unit"]
    BY <2>2 DEF Anchorings, AnchorKinds
  <2>5. Stands(w, e)
    BY <2>1, <2>4 DEF Stands
  <2>6. Unverified(a) => HeldBy(w, e)
    BY <2>1, <2>4 DEF Unverified, HeldBy, AnchorKinds
  <2>7. Clean(a) /\ Range(e) \subseteq Safe /\ None \notin Safe => Clean(w)
    <3>1. r \in Range(e)
      BY <2>1 DEF Range
    <3> QED BY <2>4, <3>1 DEF Clean, AnchorKinds
  <2> HIDE DEF w
  <2>8. \E k \in AnchorKinds : w[k].regex \in DOMAIN Groups
    BY <2>4 DEF AnchorKinds
  <2> QED BY <2>3, <2>5, <2>6, <2>7, <2>8 DEF w
<1>2. CASE \E r, u \in DOMAIN Groups : e = <<r, u>> /\ Anchoring(e) = <<"context", "unit">>
  <2>1. PICK r, u \in DOMAIN Groups : e = <<r, u>> /\ Anchoring(e) = <<"context", "unit">>
    BY <1>2
  <2>2. w = [a EXCEPT !["context"] = [regex |-> r, verified |-> TRUE],
                      !["unit"] = [regex |-> u, verified |-> TRUE]]
    BY <2>1 DEF Written, Run
  <2>3. w \in Anchorings
    <3>1. /\ [regex |-> r, verified |-> TRUE] \in Anchors
          /\ [regex |-> u, verified |-> TRUE] \in Anchors
      BY DEF Anchors
    <3> QED BY <2>2, <3>1 DEF Anchorings
  <2>4. /\ w["context"] = [regex |-> r, verified |-> TRUE]
        /\ w["unit"] = [regex |-> u, verified |-> TRUE]
        /\ w["primary"] = a["primary"]
    BY <2>2 DEF Anchorings, AnchorKinds
  <2>5. Stands(w, e)
    BY <2>1, <2>4 DEF Stands
  <2>6. Unverified(a) => HeldBy(w, e)
    BY <2>1, <2>4 DEF Unverified, HeldBy, AnchorKinds
  <2>7. Clean(a) /\ Range(e) \subseteq Safe /\ None \notin Safe => Clean(w)
    <3>1. r \in Range(e) /\ u \in Range(e)
      BY <2>1 DEF Range
    <3> QED BY <2>4, <3>1 DEF Clean, AnchorKinds
  <2> HIDE DEF w
  <2>8. \E k \in AnchorKinds : w[k].regex \in DOMAIN Groups
    BY <2>4 DEF AnchorKinds
  <2> QED BY <2>3, <2>5, <2>6, <2>7, <2>8 DEF w
<1> QED BY <1>1, <1>2, ExtractorForms

-----------------------------------------------------------------------------
(* compile_domain_metadata *)

\* Who calls a contract verified has validated an extractor that may be run.
Vouched(m) ==
    StatusVerified(m) =>
        /\ m.validation.status = "verified" /\ m.schema.type # None
        /\ m.validation.extractor \in Extractors
        /\ Range(m.validation.extractor) \subseteq Safe

SameRegexes(a, b) == \A k \in AnchorKinds : a[k].regex = b[k].regex

\* What the anchors of a verified contract are after compiling.
Trusted(a, m) ==
    IF Stands(m.anchors, m.validation.extractor)
    THEN HeldBy(a, m.validation.extractor) ELSE Unverified(a)

LEMMA NoneIsNothing ==
    /\ None \notin Safe /\ None \notin DOMAIN Groups /\ None \notin Types
    /\ None # "verified" /\ None # "unverified"
BY ContractAssumption

\* An extractor that stands has anchors to stand in.
LEMMA StandingIsStructured ==
    ASSUME NEW m \in Records, NEW e \in Extractors, Stands(m.anchors, e)
    PROVE  Structured(m)
<1>1. CASE \E r \in DOMAIN Groups : e = <<r>> /\ Anchoring(e) = <<"primary">>
  <2>1. m.anchors["primary"].regex \in DOMAIN Groups
    BY <1>1 DEF Stands
  <2> QED BY <2>1, NoneIsNothing DEF Structured, AnchorKinds
<1>2. CASE \E r, u \in DOMAIN Groups : e = <<r, u>> /\ Anchoring(e) = <<"context", "unit">>
  <2>1. m.anchors["context"].regex \in DOMAIN Groups
    BY <1>2 DEF Stands
  <2> QED BY <2>1, NoneIsNothing DEF Structured, AnchorKinds
<1> QED BY <1>1, <1>2, ExtractorForms

\* Regexes decide whether an extractor stands.
LEMMA StandsByRegexes ==
    ASSUME NEW a, NEW b, SameRegexes(a, b), NEW e \in Extractors
    PROVE  Stands(a, e) <=> Stands(b, e)
<1>1. \A i \in DOMAIN e : Anchoring(e)[i] \in AnchorKinds
  BY ExtractorForms DEF AnchorKinds
<1> QED BY <1>1 DEF Stands, SameRegexes

\* An extractor that stands and is written again changes no regex.
LEMMA WrittenAgain ==
    ASSUME NEW a \in Anchorings, NEW b \in Anchorings, SameRegexes(b, a),
           NEW e \in Extractors, Stands(a, e)
    PROVE  SameRegexes(Written(b, e), a)
<1>1. CASE \E r \in DOMAIN Groups : e = <<r>> /\ Anchoring(e) = <<"primary">>
  <2>1. PICK r \in DOMAIN Groups : e = <<r>> /\ Anchoring(e) = <<"primary">>
    BY <1>1
  <2>2. a["primary"].regex = r
    BY <2>1 DEF Stands
  <2>3. Written(b, e) = [b EXCEPT !["primary"] = [regex |-> r, verified |-> TRUE]]
    BY <2>1 DEF Written, Run
  <2> QED BY <2>2, <2>3 DEF SameRegexes, Anchorings, AnchorKinds
<1>2. CASE \E r, u \in DOMAIN Groups : e = <<r, u>> /\ Anchoring(e) = <<"context", "unit">>
  <2>1. PICK r, u \in DOMAIN Groups : e = <<r, u>> /\ Anchoring(e) = <<"context", "unit">>
    BY <1>2
  <2>2. a["context"].regex = r /\ a["unit"].regex = u
    BY <2>1 DEF Stands
  <2>3. Written(b, e) = [b EXCEPT !["context"] = [regex |-> r, verified |-> TRUE],
                                  !["unit"] = [regex |-> u, verified |-> TRUE]]
    BY <2>1 DEF Written, Run
  <2> QED BY <2>2, <2>3 DEF SameRegexes, Anchorings, AnchorKinds
<1> QED BY <1>1, <1>2, ExtractorForms

LEMMA ReverifiedFields ==
    ASSUME NEW m \in Records, Clean(m.anchors), Vouched(m), StatusVerified(m)
    PROVE  LET c == Reverified(m)
           IN /\ c \in Records /\ Same(c, m) /\ c.chunkUnit = m.chunkUnit
              /\ c.units = m.units
              /\ SameRegexes(c.anchors, m.anchors) /\ Clean(c.anchors)
              /\ Trusted(c.anchors, m)
<1> DEFINE e == m.validation.extractor
           D == Demoted(m.anchors)
<1>1. /\ m.validation.status = "verified" /\ e \in Extractors /\ Range(e) \subseteq Safe
      /\ m.anchors \in Anchorings
  BY DEF Vouched, Records
<1>2. /\ D \in Anchorings /\ Unverified(D) /\ SameRegexes(D, m.anchors) /\ Clean(D)
  BY <1>1, DemotedAnchors DEF SameRegexes
<1>3. CASE ~Structured(m)
  <2>1. Reverified(m) = m
    BY <1>1, <1>3 DEF Reverified
  <2>2. Unverified(m.anchors)
    BY <1>3 DEF Structured, Clean, Unverified
  <2>3. ~Stands(m.anchors, e)
    BY <1>1, <1>3, StandingIsStructured
  <2> QED BY <2>1, <2>2, <2>3 DEF Trusted, Same, SameRegexes
<1>4. CASE Structured(m) /\ Stands(m.anchors, e)
  <2> DEFINE w == Written(D, e)
  <2>1. Reverified(m) = [m EXCEPT !.anchors = w]
    BY <1>1, <1>4 DEF Reverified
  <2>2. w \in Anchorings /\ HeldBy(w, e) /\ Clean(w)
    BY <1>1, <1>2, WrittenAnchors, NoneIsNothing
  <2>3. SameRegexes(w, m.anchors)
    BY <1>1, <1>2, <1>4, WrittenAgain
  <2> HIDE DEF w, D
  <2>4. /\ [m EXCEPT !.anchors = w] \in Records /\ Same([m EXCEPT !.anchors = w], m)
        /\ [m EXCEPT !.anchors = w].anchors = w
        /\ [m EXCEPT !.anchors = w].units = m.units
        /\ [m EXCEPT !.anchors = w].chunkUnit = m.chunkUnit
    BY <2>2 DEF Records, Same
  <2> QED BY <1>4, <2>1, <2>2, <2>3, <2>4 DEF Trusted
<1>5. CASE Structured(m) /\ ~Stands(m.anchors, e)
  <2>1. Reverified(m) = [m EXCEPT !.anchors = D]
    BY <1>1, <1>5 DEF Reverified
  <2> HIDE DEF D
  <2>2. /\ [m EXCEPT !.anchors = D] \in Records /\ Same([m EXCEPT !.anchors = D], m)
        /\ [m EXCEPT !.anchors = D].anchors = D
        /\ [m EXCEPT !.anchors = D].units = m.units
        /\ [m EXCEPT !.anchors = D].chunkUnit = m.chunkUnit
    BY <1>2 DEF Records, Same
  <2> QED BY <1>2, <1>5, <2>1, <2>2 DEF Trusted
<1> QED BY <1>3, <1>4, <1>5

LEMMA ExecutableByRegexes ==
    ASSUME NEW c \in Records, NEW m \in Records, Same(c, m), SameRegexes(c.anchors, m.anchors)
    PROVE  Executable(c) <=> Executable(m)
BY DEF Same, SameRegexes, Executable, AnchorKinds

\* Demoting changes neither regexes nor what is known of the validation.
LEMMA DemotedLikeness ==
    ASSUME NEW m \in Records, Clean(m.anchors)
    PROVE  LET c == DemotedContract(m)
           IN /\ SameRegexes(c.anchors, m.anchors) /\ Clean(c.anchors)
              /\ StatusVerified(c) <=> StatusVerified(m)
              /\ Vouched(c) <=> Vouched(m)
              /\ Unverified(c.anchors)
<1> DEFINE c == DemotedContract(m)
<1>1. c \in Records /\ Same(c, m) /\ c.anchors = Demoted(m.anchors)
  BY DemotedFields
<1>2. m.anchors \in Anchorings
  BY DEF Records
<1>3. SameRegexes(c.anchors, m.anchors) /\ Clean(c.anchors) /\ Unverified(c.anchors)
  BY <1>1, <1>2, DemotedAnchors DEF SameRegexes
<1> HIDE DEF c
<1>4. StatusVerified(c) <=> StatusVerified(m)
  BY <1>1 DEF Same, StatusVerified
<1>5. Vouched(c) <=> Vouched(m)
  BY <1>1, <1>4 DEF Same, Vouched
<1> QED BY <1>3, <1>4, <1>5 DEF c

LEMMA CompiledVerified ==
    ASSUME NEW m \in Records, Clean(m.anchors), Vouched(m), StatusVerified(m)
    PROVE  LET c == Compiled(m)
           IN /\ c \in Records /\ Same(c, m) /\ c.chunkUnit = m.chunkUnit
              /\ SameRegexes(c.anchors, m.anchors) /\ Clean(c.anchors)
              /\ Trusted(c.anchors, m)
              /\ c.units = CASE m.units = "absent" /\ Executable(m) -> "on"
                             [] m.units = "absent" /\ ~Executable(m) -> "absent"
                             [] OTHER -> IF m.execution = "unverified" THEN "off" ELSE m.units
<1> DEFINE d == IF m.execution = "unverified" THEN DemotedContract(m) ELSE m
           a == Reverified(d)
           c == Compiled(m)
<1>1. /\ d \in Records /\ Same(d, m) /\ d.chunkUnit = m.chunkUnit
      /\ SameRegexes(d.anchors, m.anchors) /\ Clean(d.anchors)
      /\ StatusVerified(d) /\ Vouched(d)
      /\ d.units = IF m.execution = "unverified" /\ m.units # "absent" THEN "off" ELSE m.units
  <2>1. CASE m.execution = "unverified"
    BY <2>1, DemotedFields, DemotedLikeness
  <2>2. CASE m.execution # "unverified"
    BY <2>2 DEF Same, SameRegexes
  <2> QED BY <2>1, <2>2
<1> HIDE DEF d
<1>2. /\ a \in Records /\ Same(a, d) /\ a.chunkUnit = d.chunkUnit /\ a.units = d.units
      /\ SameRegexes(a.anchors, d.anchors) /\ Clean(a.anchors) /\ Trusted(a.anchors, d)
  BY <1>1, ReverifiedFields
<1>3. Same(a, m) /\ SameRegexes(a.anchors, m.anchors)
  BY <1>1, <1>2 DEF Same, SameRegexes
<1>4. Trusted(a.anchors, m)
  <2>1. m.validation = d.validation /\ m.validation.extractor \in Extractors
    BY <1>1 DEF Same, Vouched
  <2>2. Stands(d.anchors, m.validation.extractor) <=> Stands(m.anchors, m.validation.extractor)
    BY <1>1, <2>1, StandsByRegexes
  <2> QED BY <1>2, <2>1, <2>2 DEF Trusted
<1>5. StatusVerified(a) /\ (Executable(a) <=> Executable(m))
  BY <1>2, <1>3, ExecutableByRegexes DEF Same, StatusVerified
<1>6. c = IF Executable(a) THEN [a EXCEPT !.units = IF @ = "absent" THEN "on" ELSE @] ELSE a
  BY <1>5 DEF Compiled, d
<1> HIDE DEF a, c
<1>7. /\ c \in Records /\ Same(c, a) /\ c.chunkUnit = a.chunkUnit /\ c.anchors = a.anchors
      /\ c.units = IF Executable(a) /\ a.units = "absent" THEN "on" ELSE a.units
  BY <1>2, <1>6 DEF Records, Same
<1>8. Same(c, m)
  BY <1>3, <1>7 DEF Same
<1>9. a.units \in {"absent", "off", "on"} /\ m.units \in {"absent", "off", "on"}
  BY <1>2 DEF Records
<1>10. c.units = CASE m.units = "absent" /\ Executable(m) -> "on"
                   [] m.units = "absent" /\ ~Executable(m) -> "absent"
                   [] OTHER -> IF m.execution = "unverified" THEN "off" ELSE m.units
  BY <1>1, <1>2, <1>5, <1>7, <1>9
<1> QED BY <1>1, <1>2, <1>3, <1>4, <1>7, <1>8, <1>10 DEF c

LEMMA CompiledUnverified ==
    ASSUME NEW m \in Records, Clean(m.anchors), ~StatusVerified(m)
    PROVE  LET c == Compiled(m)
           IN /\ c \in Records /\ Same(c, m) /\ c.chunkUnit = m.chunkUnit
              /\ SameRegexes(c.anchors, m.anchors) /\ Clean(c.anchors)
              /\ m.units # "on" => c.units = m.units
<1> DEFINE Like(c) == /\ c \in Records /\ Same(c, m) /\ c.chunkUnit = m.chunkUnit
                      /\ SameRegexes(c.anchors, m.anchors) /\ Clean(c.anchors)
                      /\ m.units # "on" => c.units = m.units
           d == IF m.execution = "unverified" THEN DemotedContract(m) ELSE m
           a == Reverified(d)
<1>1. ASSUME NEW b, Like(b) PROVE Like(DemotedContract(b))
  <2>1. /\ DemotedContract(b) \in Records /\ Same(DemotedContract(b), b)
        /\ DemotedContract(b).chunkUnit = b.chunkUnit
        /\ DemotedContract(b).units = IF b.units = "absent" THEN "absent" ELSE "off"
    BY <1>1, DemotedFields
  <2>2. /\ SameRegexes(DemotedContract(b).anchors, b.anchors)
        /\ Clean(DemotedContract(b).anchors)
    BY <1>1, DemotedLikeness
  <2>3. b.units \in {"absent", "off", "on"} /\ m.units \in {"absent", "off", "on"}
    BY <1>1 DEF Records
  <2> QED BY <1>1, <2>1, <2>2, <2>3 DEF Same, SameRegexes
<1>2. Like(m)
  BY DEF Same, SameRegexes
<1>3. Like(d)
  BY <1>1, <1>2
<1>4. d.validation.status # "verified" /\ ~StatusVerified(d)
  BY <1>3 DEF Same, StatusVerified
<1>5. a = IF d.validation.status = "unverified" THEN DemotedContract(d) ELSE d
  BY <1>4 DEF Reverified
<1> HIDE DEF Like, d
<1>6. Like(a)
  BY <1>1, <1>3, <1>5
<1>7. ~StatusVerified(a)
  BY <1>6 DEF Like, Same, StatusVerified
<1>8. Compiled(m) = IF Declares(a) THEN DemotedContract(a) ELSE a
  BY <1>7 DEF Compiled, d
<1>9. Like(Compiled(m))
  BY <1>1, <1>6, <1>8
<1> QED BY <1>9 DEF Like

\* The contract that is stored is the one the chunks are cut by: the extractor of
\* the validation, where its anchors name what they have to.
LEMMA CutIsStored ==
    ASSUME NEW c \in Records, Vouched(c),
           StatusVerified(c) => Unverified(c.anchors) \/ HeldBy(c.anchors, c.validation.extractor)
    PROVE  /\ Cut(c) = Stored(c)
           /\ Cut(c) # None => /\ StatusVerified(c) /\ c.units = "on"
                               /\ Cut(c) = c.validation.extractor
           /\ /\ StatusVerified(c) /\ c.units = "on"
              /\ HeldBy(c.anchors, c.validation.extractor)
              /\ c.schema.fields \subseteq GroupsOf(c.validation.extractor)
              => /\ PrimaryVerified(c) \/ ContextVerified(c)
                 /\ Cut(c) = c.validation.extractor
<1> DEFINE e == c.validation.extractor
<1>1. CASE ~(StatusVerified(c) /\ c.units = "on")
  <2>1. Cut(c) = None
    BY <1>1 DEF Cut
  <2>2. Stored(c) = None
    BY <1>1 DEF Stored, StatusVerified
  <2> QED BY <1>1, <2>1, <2>2
<1>2. CASE StatusVerified(c) /\ c.units = "on" /\ Unverified(c.anchors)
  <2>1. ~PrimaryVerified(c) /\ ~ContextVerified(c)
    BY <1>2 DEF Unverified, PrimaryVerified, ContextVerified, AnchorKinds
  <2>2. Cut(c) = None /\ Stored(c) = None
    BY <1>2, <2>1 DEF Cut, Stored
  <2>3. ~HeldBy(c.anchors, e)
    BY <1>2 DEF HeldBy, Unverified, AnchorKinds
  <2> QED BY <2>2, <2>3
<1>3. CASE StatusVerified(c) /\ c.units = "on" /\ HeldBy(c.anchors, e)
  <2>1. c.validation.status = "verified" /\ e \in Extractors /\ c.schema.type # None
    BY <1>3 DEF Vouched
  <2>2. CASE \E r \in DOMAIN Groups : e = <<r>> /\ Anchoring(e) = <<"primary">>
    <3>1. PICK r \in DOMAIN Groups : e = <<r>> /\ Anchoring(e) = <<"primary">>
      BY <2>2
    <3> HIDE DEF e
    <3>2. /\ c.anchors["primary"].regex = r /\ c.anchors["primary"].verified
          /\ ~c.anchors["context"].verified
      BY <1>3, <3>1 DEF HeldBy
    <3>3. /\ ~ContextVerified(c)
          /\ PrimaryVerified(c) <=> c.schema.fields \subseteq GroupsOf(e)
      BY <3>1, <3>2 DEF ContextVerified, PrimaryVerified
    <3>4. Stands(c.anchors, e) /\ \A k \in Range(Anchoring(e)) : c.anchors[k].verified
      BY <3>1, <3>2 DEF Stands, Range
    <3>5. Cut(c) = IF PrimaryVerified(c) THEN e ELSE None
      BY <1>3, <3>1, <3>2, <3>3 DEF Cut
    <3>6. Stored(c) = IF PrimaryVerified(c) THEN e ELSE None
      BY <1>3, <2>1, <3>3, <3>4 DEF Stored, e
    <3> QED BY <1>3, <3>3, <3>5, <3>6 DEF e
  <2>3. CASE \E r, u \in DOMAIN Groups : e = <<r, u>> /\ Anchoring(e) = <<"context", "unit">>
    <3>1. PICK r, u \in DOMAIN Groups : e = <<r, u>> /\ Anchoring(e) = <<"context", "unit">>
      BY <2>3
    <3> HIDE DEF e
    <3>2. /\ c.anchors["context"].regex = r /\ c.anchors["context"].verified
          /\ c.anchors["unit"].regex = u /\ c.anchors["unit"].verified
          /\ ~c.anchors["primary"].verified
      BY <1>3, <3>1 DEF HeldBy
    <3>3. /\ ~PrimaryVerified(c)
          /\ ContextVerified(c) <=> c.schema.fields \subseteq GroupsOf(e)
      BY <3>1, <3>2 DEF ContextVerified, PrimaryVerified
    <3>4. Stands(c.anchors, e) /\ \A k \in Range(Anchoring(e)) : c.anchors[k].verified
      BY <3>1, <3>2 DEF Stands, Range
    <3>5. Cut(c) = IF ContextVerified(c) THEN e ELSE None
      BY <1>3, <3>1, <3>2, <3>3 DEF Cut
    <3>6. Stored(c) = IF ContextVerified(c) THEN e ELSE None
      BY <1>3, <2>1, <3>3, <3>4 DEF Stored, e
    <3> QED BY <1>3, <3>3, <3>5, <3>6 DEF e
  <2> QED BY <2>1, <2>2, <2>3, ExtractorForms
<1> QED BY <1>1, <1>2, <1>3

\* The same of what a record compiles to.
LEMMA CompiledCut ==
    ASSUME NEW m \in Records, Clean(m.anchors), Vouched(m)
    PROVE  /\ Cut(Compiled(m)) = Stored(Compiled(m))
           /\ Cut(Compiled(m)) # None => /\ StatusVerified(m)
                                         /\ Cut(Compiled(m)) = m.validation.extractor
<1> DEFINE c == Compiled(m)
<1>1. c \in Records /\ Same(c, m) /\ (StatusVerified(m) => Trusted(c.anchors, m))
  BY CompiledVerified, CompiledUnverified
<1>2. (StatusVerified(c) <=> StatusVerified(m)) /\ Vouched(c)
  BY <1>1 DEF Same, StatusVerified, Vouched
<1>3. c.validation = m.validation
  BY <1>1 DEF Same
<1>4. StatusVerified(c) => Unverified(c.anchors) \/ HeldBy(c.anchors, c.validation.extractor)
  BY <1>1, <1>2, <1>3 DEF Trusted
<1> HIDE DEF c
<1> QED BY <1>1, <1>2, <1>3, <1>4, CutIsStored DEF c

-----------------------------------------------------------------------------
(* What the model answers and a profile says *)

UsableLists ==
    UNION {[P -> {g \in Contracts : Usable(g)}] : P \in {Q \in SUBSET Nat : IsFiniteSet(Q)}}

\* A record that has been normalised: nothing in it claims to have been run.
Prepared(m) ==
    /\ m \in Records /\ Clean(m.anchors) /\ m.contracts \in UsableLists
    /\ m.execution = None /\ m.validation = NoValidation

LEMMA NormalizedAnchors ==
    ASSUME NEW a \in Anchorings
    PROVE  LET n == [k \in AnchorKinds |-> IF a[k].regex \in Safe THEN a[k] ELSE NoAnchor]
           IN n \in Anchorings /\ Clean(n)
<1>1. NoAnchor \in Anchors /\ NoAnchor.regex = None /\ ~NoAnchor.verified
  BY DEF NoAnchor, Anchors
<1> QED BY <1>1, NoneIsNothing DEF Anchorings, Clean

LEMMA NormalizedContracts ==
    ASSUME NEW s \in Seq(Contracts)
    PROVE  [i \in {j \in DOMAIN s : Usable(s[j])} |-> s[i]] \in UsableLists
<1> DEFINE P == {j \in DOMAIN s : Usable(s[j])}
<1>1. P \subseteq 1 .. Len(s) /\ Len(s) \in Nat
  OBVIOUS
<1>2. IsFiniteSet(P) /\ P \in SUBSET Nat
  <2> HIDE DEF P
  <2>1. IsFiniteSet(1 .. Len(s))
    BY <1>1, FS_Interval
  <2>2. IsFiniteSet(P)
    BY <1>1, <2>1, FS_Subset
  <2>3. 1 .. Len(s) \subseteq Nat
    BY <1>1
  <2> QED BY <1>1, <2>2, <2>3
<1>3. \A i \in P : s[i] \in {g \in Contracts : Usable(g)}
  OBVIOUS
<1> HIDE DEF P
<1>4. [i \in P |-> s[i]] \in [P -> {g \in Contracts : Usable(g)}]
  BY <1>3
<1>5. [i \in P |-> s[i]] \in UsableLists
  BY <1>2, <1>4 DEF UsableLists
<1> QED BY <1>5 DEF P

LEMMA UsableIsList == UsableLists \subseteq Lists
<1>1. ASSUME NEW P, NEW l \in [P -> {g \in Contracts : Usable(g)}] PROVE l \in [P -> Contracts]
  OBVIOUS
<1> QED BY <1>1 DEF UsableLists, Lists

LEMMA NormalizedPrepared ==
    ASSUME NEW m \in Metadata
    PROVE  LET n == Normalized(m)
           IN /\ Prepared(n) /\ n.schema = m.schema /\ n.units = m.units
              /\ n.chunkUnit = m.chunkUnit
<1> DEFINE a == [k \in AnchorKinds |-> IF m.anchors[k].regex \in Safe THEN m.anchors[k] ELSE NoAnchor]
           l == [i \in {j \in DOMAIN m.contracts : Usable(m.contracts[j])} |-> m.contracts[i]]
           n == Normalized(m)
<1>1. m.anchors \in Anchorings /\ m.contracts \in Seq(Contracts)
  BY DEF Metadata
<1>2. a \in Anchorings /\ Clean(a)
  BY <1>1, NormalizedAnchors
<1>3. l \in UsableLists /\ l \in Lists
  BY <1>1, NormalizedContracts, UsableIsList
<1>4. NoValidation \in Validations
  BY DEF NoValidation, Validations, Statuses
<1>5. n = [m EXCEPT !.anchors = a, !.contracts = l, !.execution = None,
                    !.validation = NoValidation]
  BY DEF Normalized
<1> HIDE DEF a, l, n
<1>6. /\ n \in Records /\ n.anchors = a /\ n.contracts = l /\ n.execution = None
      /\ n.validation = NoValidation /\ n.schema = m.schema /\ n.units = m.units
      /\ n.chunkUnit = m.chunkUnit
  BY <1>2, <1>3, <1>4, <1>5 DEF Metadata, Records, Statuses
<1> QED BY <1>2, <1>3, <1>6 DEF Prepared, n

LEMMA MergedPrepared ==
    ASSUME NEW base \in Metadata, NEW m \in Metadata
    PROVE  LET n == Merged(base, m)
           IN /\ Prepared(n)
              /\ n.schema.fields = m.schema.fields \cup base.schema.fields
<1> DEFINE b == Normalized(base)
           a == Normalized(m)
           schema == [type |-> IF b.schema.type = None THEN a.schema.type ELSE b.schema.type,
                      fields |-> a.schema.fields \cup b.schema.fields]
           anchors == [k \in AnchorKinds |->
                        IF b.anchors[k].regex = None THEN a.anchors[k] ELSE b.anchors[k]]
           units == IF b.units = "absent" THEN a.units ELSE b.units
           contracts == IF DOMAIN b.contracts = {} THEN a.contracts ELSE b.contracts
           n == Merged(base, m)
<1>1. /\ Prepared(b) /\ Prepared(a)
      /\ b.schema = base.schema /\ a.schema = m.schema
  BY NormalizedPrepared
<1>2. n = [a EXCEPT !.schema = schema, !.anchors = anchors, !.units = units,
                    !.chunkUnit = a.chunkUnit \/ b.chunkUnit, !.contracts = contracts]
  BY DEF Merged
<1>3. base.schema \in Schemas /\ m.schema \in Schemas
  BY DEF Metadata
<1> HIDE DEF a, b, n
<1>4. schema \in Schemas
  BY <1>1, <1>3 DEF Schemas
<1>5. schema.fields = m.schema.fields \cup base.schema.fields
  BY <1>1
<1>6. anchors \in Anchorings /\ Clean(anchors)
  BY <1>1 DEF Prepared, Records, Anchorings, Clean
<1>7. contracts \in UsableLists /\ contracts \in Lists
  BY <1>1, UsableIsList DEF Prepared
<1>8. /\ units \in {"absent", "off", "on"} /\ (a.chunkUnit \/ b.chunkUnit) \in BOOLEAN
      /\ a \in Records /\ a.execution = None /\ a.validation = NoValidation
  BY <1>1 DEF Prepared, Records
<1> HIDE DEF schema, anchors, units, contracts
<1>9. /\ n \in Records /\ n.schema = schema /\ n.anchors = anchors /\ n.contracts = contracts
      /\ n.execution = None /\ n.validation = NoValidation
  BY <1>2, <1>4, <1>6, <1>7, <1>8 DEF Records
<1> QED BY <1>5, <1>6, <1>7, <1>9 DEF Prepared, n

-----------------------------------------------------------------------------
(* Execution and validation *)

LEMMA FoundIsNat == ASSUME NEW file \in Files, NEW e PROVE Found(file, e) \in Nat
BY ContractAssumption DEF Found

LEMMA UsableElements ==
    ASSUME NEW l \in UsableLists
    PROVE  /\ DOMAIN l \subseteq Nat /\ IsFiniteSet(DOMAIN l)
           /\ \A i \in DOMAIN l : l[i] \in Contracts /\ Usable(l[i])
BY DEF UsableLists

\* Of a contract that passes, an extractor that passes is selected.
LEMMA BestExtractorPasses ==
    ASSUME NEW file \in Files, NEW g \in Contracts, Passing(file, g) # {}
    PROVE  BestExtractor(file, g) \in Passing(file, g)
<1> DEFINE S == Passing(file, g)
           value == [i \in S |-> Found(file, g.extractors[i])]
<1>1. S \subseteq 1 .. Len(g.extractors) /\ Len(g.extractors) \in Nat
  BY DEF Passing, Contracts
<1>2. value \in [S -> Nat]
  BY FoundIsNat
<1> HIDE DEF S, value
<1>3. IsFiniteSet(S) /\ S \in SUBSET Nat
  <2>1. IsFiniteSet(1 .. Len(g.extractors))
    BY <1>1, FS_Interval
  <2>2. IsFiniteSet(S)
    BY <1>1, <2>1, FS_Subset
  <2>3. 1 .. Len(g.extractors) \subseteq Nat
    BY <1>1
  <2> QED BY <1>1, <2>2, <2>3
<1>4. S # {}
  BY DEF S
<1>5. FirstBest(value) \in S
  BY <1>2, <1>3, <1>4, FirstBestExists
<1> QED BY <1>5 DEF S, value, BestExtractor

\* Whatever contract a report is taken for, it gives an extractor that may be
\* run; where contracts can be told apart, that of the report's own contract.
LEMMA ReportedIsExtractor ==
    ASSUME NEW l \in UsableLists, NEW i \in DOMAIN l, NEW index \in DOMAIN l[i].extractors
    PROVE  LET e == ReportedExtractor(l, l[i], index)
           IN /\ e \in Extractors /\ Range(e) \subseteq Safe
              /\ (\A j \in DOMAIN l \ {i} : l[i].type # l[j].type \/ l[i].fields # l[j].fields)
                 => e = l[i].extractors[index]
<1> DEFINE alike == {j \in DOMAIN l : /\ l[j].type = l[i].type /\ l[j].fields = l[i].fields
                                      /\ index <= Len(l[j].extractors)}
           n == CHOOSE j \in alike : \A k \in alike : j <= k
<1>1. \A j \in DOMAIN l : /\ l[j].extractors \in Seq(Extractors)
                          /\ ContractAdmitted(l[j])
  BY UsableElements DEF Usable, Contracts
<1>2. index \in 1 .. Len(l[i].extractors) /\ Len(l[i].extractors) \in Nat
  BY <1>1
<1>3. i \in alike
  BY <1>2
<1>4. alike \in SUBSET Nat /\ IsFiniteSet(alike) /\ alike \subseteq DOMAIN l
  <2>1. alike \subseteq DOMAIN l
    OBVIOUS
  <2> HIDE DEF alike
  <2> QED BY <2>1, UsableElements, FS_Subset
<1>5. n \in alike
  <2> HIDE DEF alike
  <2>1. \E j \in alike : \A k \in alike : j <= k
    BY <1>3, <1>4, LeastExists
  <2> QED BY <2>1
<1>6. ReportedExtractor(l, l[i], index) = l[n].extractors[index]
  BY DEF ReportedExtractor
<1> HIDE DEF n
<1>7. n \in DOMAIN l /\ index \in DOMAIN l[n].extractors
  <2>1. n \in DOMAIN l /\ index <= Len(l[n].extractors)
    BY <1>5
  <2>2. l[n].extractors \in Seq(Extractors)
    BY <1>1, <2>1
  <2> QED BY <1>2, <2>1, <2>2
<1>8. l[n].extractors[index] \in Extractors
  BY <1>1, <1>7
<1>9. Range(l[n].extractors[index]) \subseteq Safe
  <2>1. ContractAdmitted(l[n])
    BY <1>1, <1>7
  <2>2. l[n].extractors[index] \in Range(l[n].extractors)
    BY <1>7 DEF Range
  <2> QED BY <2>1, <2>2 DEF ContractAdmitted
<1>10. ASSUME \A j \in DOMAIN l \ {i} : l[i].type # l[j].type \/ l[i].fields # l[j].fields
       PROVE  n = i
  BY <1>5, <1>10
<1> QED BY <1>6, <1>8, <1>9, <1>10

\* A record whose claims have been run on a file.
Ran(file, m) ==
    /\ m \in Records /\ Clean(m.anchors) /\ Vouched(m) /\ m.contracts \in UsableLists
    /\ StatusVerified(m) /\ ToldApart(m) => Found(file, m.validation.extractor) > 0

LEMMA ExecutedFields ==
    ASSUME NEW file \in Files, NEW m, Prepared(m)
    PROVE  LET x == Executed(file, m)
               e == x.validation.extractor
           IN /\ Ran(file, x) /\ x.contracts = m.contracts
              /\ x.execution \in {"verified", "unverified"}
              /\ x.validation.status = x.execution
              /\ x.execution = "verified" /\ ToldApart(m) =>
                    /\ HeldBy(x.anchors, e) /\ Stands(x.anchors, e)
                    /\ x.schema.fields \subseteq GroupsOf(e)
<1> DEFINE V == {i \in DOMAIN m.contracts : Passing(file, m.contracts[i]) # {}}
           units == [i \in V |->
                    Found(file, m.contracts[i].extractors[BestExtractor(file, m.contracts[i])])]
           n == FirstBest(units)
           g == m.contracts[n]
           b == BestExtractor(file, g)
           e1 == ReportedExtractor(m.contracts, g, 1)
           eb == ReportedExtractor(m.contracts, g, b)
           D == Demoted(m.anchors)
           x == Executed(file, m)
<1>1. /\ m \in Records /\ m.anchors \in Anchorings /\ Clean(m.anchors)
      /\ m.contracts \in UsableLists
  BY DEF Prepared, Records
<1>2. D \in Anchorings /\ Clean(D) /\ Unverified(D)
  BY <1>1, DemotedAnchors
<1>3. CASE V = {}
  <2>1. x = [m EXCEPT !.execution = "unverified",
                      !.validation = [status |-> "unverified", extractor |-> <<>>],
                      !.anchors = D]
    BY <1>3 DEF Executed
  <2>2. [status |-> "unverified", extractor |-> <<>>] \in Validations
    BY DEF Validations, Statuses
  <2> HIDE DEF D, x
  <2>3. /\ x \in Records /\ x.anchors = D /\ x.contracts = m.contracts
        /\ x.execution = "unverified" /\ x.validation.status = "unverified"
    BY <1>1, <1>2, <2>1, <2>2 DEF Records, Statuses
  <2>4. ~StatusVerified(x) /\ Vouched(x)
    BY <2>3, NoneIsNothing DEF StatusVerified, Vouched
  <2> QED BY <1>1, <1>2, <2>3, <2>4 DEF Ran, x
<1>4. CASE V # {}
  <2>1. n \in V
    <3>1. V \subseteq DOMAIN m.contracts
      OBVIOUS
    <3>2. units \in [V -> Nat]
      BY FoundIsNat
    <3> HIDE DEF V, units
    <3>3. V \in SUBSET Nat /\ IsFiniteSet(V)
      BY <1>1, <3>1, UsableElements, FS_Subset
    <3> QED BY <1>4, <3>2, <3>3, FirstBestExists
  <2>2. x = [m EXCEPT !.execution = "verified",
                      !.validation = [status |-> "verified", extractor |-> e1],
                      !.schema = [type |-> g.type, fields |-> g.fields],
                      !.units = "on",
                      !.anchors = Written(D, eb)]
    BY <1>4 DEF Executed
  <2>3. n \in DOMAIN m.contracts /\ Passing(file, g) # {}
    BY <2>1
  <2> HIDE DEF n
  <2>4. g \in Contracts /\ Usable(g)
    BY <1>1, <2>3, UsableElements
  <2>5. b \in Passing(file, g)
    BY <2>3, <2>4, BestExtractorPasses
  <2> HIDE DEF b
  <2>6. b \in DOMAIN g.extractors /\ g.extractors \in Seq(Extractors) /\ g.extractors # <<>>
    BY <2>4, <2>5 DEF Passing, Contracts, Usable
  <2>7. 1 \in DOMAIN g.extractors
    BY <2>6
  <2>8. /\ e1 \in Extractors /\ Range(e1) \subseteq Safe
        /\ eb \in Extractors /\ Range(eb) \subseteq Safe
    BY <1>1, <2>3, <2>6, <2>7, ReportedIsExtractor
  <2>9. ASSUME ToldApart(m)
        PROVE  e1 = eb /\ e1 = g.extractors[b]
    <3>1. Len(g.extractors) = 1
      BY <2>3, <2>9 DEF ToldApart
    <3>2. b = 1
      BY <2>6, <3>1
    <3>3. \A j \in DOMAIN m.contracts \ {n} :
            m.contracts[n].type # m.contracts[j].type \/ m.contracts[n].fields # m.contracts[j].fields
      BY <2>3, <2>9 DEF ToldApart
    <3>4. e1 = g.extractors[1]
      BY <1>1, <2>3, <2>7, <3>3, ReportedIsExtractor
    <3> QED BY <3>2, <3>4
  <2>10. /\ Written(D, eb) \in Anchorings /\ Clean(Written(D, eb))
         /\ HeldBy(Written(D, eb), eb) /\ Stands(Written(D, eb), eb)
    BY <1>2, <2>8, WrittenAnchors, NoneIsNothing
  <2>11. /\ [status |-> "verified", extractor |-> e1] \in Validations
         /\ [type |-> g.type, fields |-> g.fields] \in Schemas /\ g.type # None
    BY <2>4, <2>8, NoneIsNothing DEF Validations, Statuses, Schemas, Contracts
  <2> DEFINE w == Written(D, eb)
  <2> HIDE DEF D, x, w, e1, eb, g
  <2>12. /\ x \in Records /\ x.anchors = w /\ x.contracts = m.contracts
         /\ x.execution = "verified" /\ x.validation.status = "verified"
         /\ x.validation.extractor = e1 /\ x.schema.type = g.type /\ x.schema.fields = g.fields
    BY <1>1, <2>2, <2>10, <2>11 DEF Records, Statuses, w
  <2>13. Vouched(x)
    BY <2>8, <2>11, <2>12 DEF Vouched
  <2>14. ToldApart(x) <=> ToldApart(m)
    BY <2>12 DEF ToldApart
  <2>15. ASSUME ToldApart(m)
         PROVE  /\ Found(file, e1) > 0 /\ x.schema.fields \subseteq GroupsOf(e1)
                /\ HeldBy(x.anchors, e1) /\ Stands(x.anchors, e1)
    <3>1. e1 = eb /\ e1 = g.extractors[b]
      BY <2>9, <2>15 DEF g, e1, eb
    <3>2. Found(file, e1) >= g.min /\ g.fields \subseteq GroupsOf(e1)
      BY <2>5, <3>1 DEF Passing
    <3>3. g.min \in Nat \ {0} /\ Found(file, e1) \in Nat
      BY <2>4, FoundIsNat DEF Contracts
    <3> QED BY <2>10, <2>12, <3>1, <3>2, <3>3 DEF w
  <2>16. Ran(file, x)
    BY <1>1, <2>10, <2>12, <2>13, <2>14, <2>15 DEF Ran, w
  <2> QED BY <2>12, <2>15, <2>16 DEF x
<1> QED BY <1>3, <1>4

\* The extractors a record declares, as candidates of a validation.
CandidateRecords == [type : Types, fields : SUBSET Fields, extractor : Extractors]

LEMMA CandidatesType ==
    ASSUME NEW p \in Metadata
    PROVE  /\ Candidates(p) \in Seq(CandidateRecords)
           /\ \A i \in DOMAIN Candidates(p) : Candidates(p)[i].fields = p.schema.fields
<1> DEFINE type == IF p.schema.type = None THEN "unknown" ELSE p.schema.type
           of(e) == [type |-> type, fields |-> p.schema.fields, extractor |-> e]
           x == p.anchors["primary"].regex
           y == p.anchors["context"].regex
           z == p.anchors["unit"].regex
           s == IF x = None THEN <<>> ELSE <<of(<<x>>)>>
           t == IF y = None \/ z = None THEN <<>> ELSE <<of(<<y, z>>)>>
           C == {c \in CandidateRecords : c.fields = p.schema.fields}
<1>1. p.schema.fields \in SUBSET Fields /\ type \in Types
  <2>1. p.schema \in Schemas
    BY DEF Metadata
  <2> QED BY <2>1, ContractAssumption DEF Schemas
<1>2. \A e \in Extractors : of(e) \in C
  BY <1>1 DEF CandidateRecords
<1>3. {x, y, z} \subseteq DOMAIN Groups \cup {None}
  <2>1. p.anchors \in Anchorings
    BY DEF Metadata
  <2> QED BY <2>1 DEF Anchorings, Anchors, AnchorKinds
<1>4. /\ x # None => <<x>> \in Extractors
      /\ y # None /\ z # None => <<y, z>> \in Extractors
  BY <1>3 DEF Extractors
<1>5. Candidates(p) = s \o t
  BY DEF Candidates
<1> HIDE DEF of, x, y, z, C
<1>6. s \in Seq(C) /\ t \in Seq(C)
  BY <1>2, <1>4
<1> HIDE DEF s, t
<1>7. Candidates(p) \in Seq(C)
  BY <1>5, <1>6
<1>8. \A i \in DOMAIN Candidates(p) : Candidates(p)[i] \in C
  BY <1>7
<1>9. C \subseteq CandidateRecords
  BY DEF C
<1> QED BY <1>7, <1>8, <1>9 DEF C

LEMMA ValidatedFields ==
    ASSUME NEW file \in Files, NEW m \in Records, Clean(m.anchors), m.contracts \in UsableLists,
           NEW candidates \in Seq(CandidateRecords)
    PROVE  LET v == Validated(file, m, candidates)
               e == v.validation.extractor
           IN /\ Ran(file, v) /\ v.contracts = m.contracts /\ v.execution = m.execution
              /\ v.schema.fields = m.schema.fields
              /\ v.validation.status \in {"verified", "unverified"}
              /\ v.validation.status = "verified" =>
                    /\ HeldBy(v.anchors, e) /\ Stands(v.anchors, e)
                    /\ \E i \in DOMAIN candidates : candidates[i].fields \subseteq GroupsOf(e)
<1> DEFINE S == Eligible(file, candidates)
           units == [i \in S |-> Found(file, candidates[i].extractor)]
           n == FirstBest(units)
           best == candidates[n]
           D == Demoted(m.anchors)
           v == Validated(file, m, candidates)
<1>1. m.anchors \in Anchorings
  BY DEF Records
<1>2. D \in Anchorings /\ Clean(D) /\ Unverified(D)
  BY <1>1, DemotedAnchors
<1>3. CASE S = {}
  <2>1. v = [m EXCEPT !.validation = [status |-> "unverified", extractor |-> <<>>],
                      !.anchors = D]
    BY <1>3 DEF Validated
  <2>2. [status |-> "unverified", extractor |-> <<>>] \in Validations
    BY DEF Validations, Statuses
  <2> HIDE DEF D, v
  <2>3. /\ v \in Records /\ v.anchors = D /\ v.contracts = m.contracts
        /\ v.execution = m.execution /\ v.validation.status = "unverified"
        /\ v.schema.fields = m.schema.fields
    BY <1>2, <2>1, <2>2 DEF Records
  <2>4. ~StatusVerified(v) /\ Vouched(v)
    BY <2>3, NoneIsNothing DEF StatusVerified, Vouched
  <2> QED BY <1>2, <2>3, <2>4 DEF Ran, v
<1>4. CASE S # {}
  <2>1. n \in S
    <3>1. S \subseteq DOMAIN candidates
      BY DEF Eligible
    <3>2. units \in [S -> Nat]
      BY FoundIsNat
    <3> HIDE DEF S, units
    <3>3. DOMAIN candidates = 1 .. Len(candidates) /\ Len(candidates) \in Nat
      OBVIOUS
    <3>4. IsFiniteSet(1 .. Len(candidates)) /\ 1 .. Len(candidates) \subseteq Nat
      BY <3>3, FS_Interval
    <3>5. S \in SUBSET Nat /\ IsFiniteSet(S)
      BY <3>1, <3>3, <3>4, FS_Subset
    <3> QED BY <1>4, <3>2, <3>5, FirstBestExists
  <2>2. v = [m EXCEPT !.validation = [status |-> "verified", extractor |-> best.extractor],
                      !.schema.type = best.type,
                      !.anchors = Written(D, best.extractor)]
    BY <1>4 DEF Validated
  <2> HIDE DEF n
  <2>3. /\ n \in DOMAIN candidates /\ best \in CandidateRecords
        /\ Range(best.extractor) \subseteq Safe
        /\ best.fields \subseteq GroupsOf(best.extractor)
        /\ Found(file, best.extractor) > 0
    BY <2>1 DEF Eligible
  <2>4. best.extractor \in Extractors /\ best.type \in Types
    BY <2>3 DEF CandidateRecords
  <2> DEFINE e == best.extractor
             w == Written(D, e)
             schema == [m.schema EXCEPT !.type = best.type]
  <2>5. /\ w \in Anchorings /\ Clean(w) /\ HeldBy(w, e) /\ Stands(w, e)
    BY <1>2, <2>3, <2>4, WrittenAnchors, NoneIsNothing
  <2>6. /\ schema \in Schemas /\ schema.fields = m.schema.fields
        /\ schema.type = best.type /\ schema.type # None
    <3>1. m.schema \in Schemas
      BY DEF Records
    <3> QED BY <2>4, <3>1, NoneIsNothing DEF Schemas
  <2>7. [status |-> "verified", extractor |-> e] \in Validations
    BY <2>4 DEF Validations, Statuses
  <2>8. v = [m EXCEPT !.validation = [status |-> "verified", extractor |-> e],
                      !.schema = schema, !.anchors = w]
    BY <2>2
  <2> HIDE DEF D, v, w, schema, best, e
  <2>9. /\ v \in Records /\ v.anchors = w /\ v.contracts = m.contracts
        /\ v.execution = m.execution /\ v.validation.status = "verified"
        /\ v.validation.extractor = e /\ v.schema = schema
    BY <2>5, <2>6, <2>7, <2>8 DEF Records
  <2>10. Vouched(v)
    BY <2>3, <2>4, <2>6, <2>9 DEF Vouched, e
  <2>11. Ran(file, v)
    BY <2>3, <2>5, <2>9, <2>10 DEF Ran, e
  <2> QED BY <2>3, <2>5, <2>6, <2>9, <2>11 DEF v, e, best
<1> QED BY <1>3, <1>4

-----------------------------------------------------------------------------
(* suggest *)

\* A record keeps what it was run for as long as its claims and what may be run
\* of it are the same.
LEMMA RanSame ==
    ASSUME NEW file, NEW m, Ran(file, m), NEW c \in Records, Same(c, m), Clean(c.anchors)
    PROVE  Ran(file, c)
<1>1. (StatusVerified(c) <=> StatusVerified(m)) /\ (ToldApart(c) <=> ToldApart(m))
  BY DEF Same, StatusVerified, ToldApart
<1>2. Vouched(c)
  BY <1>1 DEF Ran, Same, Vouched
<1> QED BY <1>1, <1>2 DEF Ran, Same

LEMMA RanCompiled ==
    ASSUME NEW file, NEW m, Ran(file, m)
    PROVE  Ran(file, Compiled(m))
<1>1. m \in Records /\ Clean(m.anchors) /\ Vouched(m)
  BY DEF Ran
<1>2. Compiled(m) \in Records /\ Same(Compiled(m), m) /\ Clean(Compiled(m).anchors)
  BY <1>1, CompiledVerified, CompiledUnverified
<1> QED BY <1>2, RanSame

LEMMA UploadReadyFields ==
    ASSUME NEW m \in Records
    PROVE  LET u == UploadReady(m)
           IN /\ u \in Records /\ Same(u, m) /\ u.anchors = m.anchors
              /\ ContractState(u) = "verified" => u = m
              /\ ContractState(u) = "metadata_only" => u.units = "off" /\ ~u.chunkUnit
<1> DEFINE u == UploadReady(m)
<1>1. CASE ContractState(m) # "verified" /\ Declares(m)
  <2>1. u = [m EXCEPT !.chunkUnit = FALSE, !.units = "off"]
    BY <1>1 DEF UploadReady
  <2> HIDE DEF u
  <2>2. /\ u \in Records /\ u.schema = m.schema /\ u.contracts = m.contracts
        /\ u.execution = m.execution /\ u.validation = m.validation
        /\ u.anchors = m.anchors /\ u.units = "off" /\ ~u.chunkUnit
    BY <2>1 DEF Records
  <2>3. ContractState(u) # "verified"
    BY <2>2 DEF ContractState
  <2> QED BY <2>2, <2>3 DEF Same, u
<1>2. CASE ~(ContractState(m) # "verified" /\ Declares(m))
  <2>1. u = m
    BY <1>2 DEF UploadReady
  <2>2. ContractState(m) # "metadata_only"
    BY <1>2 DEF ContractState
  <2> QED BY <2>1, <2>2 DEF Same
<1> QED BY <1>1, <1>2

\* What is suggested of a file has been run on it.  If it is called verified, if
\* no fallback stands for generated contracts that failed, and if the contracts
\* can be told apart, its anchors are the extractor that was run; this names the
\* identity fields where the profile and the answer have the same.
LEMMA SuggestedRan ==
    ASSUME NEW file \in Files, NEW p \in Metadata, NEW base,
           base = None \/ base \in Metadata
    PROVE  LET m == Suggested(file, p, base)
               e == m.validation.extractor
           IN /\ Ran(file, m)
              /\ ContractState(m) = "metadata_only" => m.units = "off" /\ ~m.chunkUnit
              /\ /\ ContractState(m) = "verified" /\ m.execution # "unverified"
                 /\ ToldApart(m) /\ SameIdentity(p, base)
                 => /\ HeldBy(m.anchors, e) /\ Stands(m.anchors, e)
                    /\ m.schema.fields \subseteq GroupsOf(e)
<1> DEFINE candidates == Candidates(p) \o (IF base = None THEN <<>> ELSE Candidates(base))
           merged == IF base # None /\ ~Generic(base) THEN Merged(base, p) ELSE Normalized(p)
           first == Compiled(merged)
           executed == IF DOMAIN first.contracts = {} THEN first ELSE Executed(file, first)
           v == Validated(file, executed, candidates)
           x == IF executed.execution = "verified" \/ (executed.execution # None /\ candidates = <<>>)
                THEN Compiled(executed)
                ELSE IF candidates # <<>> THEN Compiled(v) ELSE executed
           m == Suggested(file, p, base)
           e == m.validation.extractor
           Sound(r) == /\ HeldBy(r.anchors, r.validation.extractor)
                       /\ Stands(r.anchors, r.validation.extractor)
                       /\ r.schema.fields \subseteq GroupsOf(r.validation.extractor)
<1>1. m = UploadReady(x)
  BY DEF Suggested
<1>2. /\ candidates \in Seq(CandidateRecords)
      /\ SameIdentity(p, base) =>
            \A i \in DOMAIN candidates : candidates[i].fields = p.schema.fields
  <2>1. CASE base = None
    <3>1. candidates = Candidates(p)
      BY <2>1, CandidatesType
    <3> QED BY <3>1, CandidatesType
  <2>2. CASE base # None
    <3>1. candidates = Candidates(p) \o Candidates(base)
      BY <2>2
    <3> HIDE DEF candidates
    <3> DEFINE s == Candidates(p)
               t == Candidates(base)
    <3>2. /\ s \in Seq(CandidateRecords) /\ \A i \in DOMAIN s : s[i].fields = p.schema.fields
          /\ t \in Seq(CandidateRecords) /\ \A i \in DOMAIN t : t[i].fields = base.schema.fields
      BY <2>2, CandidatesType
    <3>3. SameIdentity(p, base) => base.schema.fields = p.schema.fields \/ t = <<>>
      BY <2>2 DEF SameIdentity
    <3>4. candidates = s \o t
      BY <3>1
    <3> HIDE DEF s, t
    <3>5. candidates \in Seq(CandidateRecords)
      BY <3>2, <3>4
    <3>6. ASSUME SameIdentity(p, base), NEW i \in DOMAIN candidates
          PROVE  candidates[i].fields = p.schema.fields
      <4>1. \/ i \in DOMAIN s /\ candidates[i] = s[i]
            \/ i - Len(s) \in DOMAIN t /\ candidates[i] = t[i - Len(s)]
        BY <3>2, <3>4, <3>6
      <4>2. base.schema.fields = p.schema.fields \/ DOMAIN t = {}
        BY <3>3, <3>6
      <4> QED BY <3>2, <4>1, <4>2
    <3> QED BY <3>5, <3>6
  <2> QED BY <2>1, <2>2
<1>3. Prepared(merged) /\ (SameIdentity(p, base) => merged.schema.fields = p.schema.fields)
  <2>1. CASE base # None /\ ~Generic(base)
    <3>1. merged = Merged(base, p)
      BY <2>1
    <3> HIDE DEF merged
    <3>2. Prepared(merged) /\ merged.schema.fields = p.schema.fields \cup base.schema.fields
      BY <2>1, <3>1, MergedPrepared
    <3>3. SameIdentity(p, base) => base.schema.fields \subseteq p.schema.fields
      BY <2>1 DEF SameIdentity
    <3> QED BY <3>2, <3>3
  <2>2. CASE ~(base # None /\ ~Generic(base))
    <3>1. merged = Normalized(p)
      BY <2>2
    <3> HIDE DEF merged
    <3> QED BY <3>1, NormalizedPrepared
  <2> QED BY <2>1, <2>2
<1> HIDE DEF candidates, merged
<1>4. Prepared(first) /\ first.schema.fields = merged.schema.fields
  <2>1. merged \in Records /\ Clean(merged.anchors) /\ ~StatusVerified(merged)
    BY <1>3, NoneIsNothing DEF Prepared, NoValidation, StatusVerified
  <2>2. first \in Records /\ Same(first, merged) /\ Clean(first.anchors)
    BY <2>1, CompiledUnverified
  <2> QED BY <1>3, <2>2 DEF Prepared, Same
<1> HIDE DEF first
<1>5. Ran(file, first) /\ ~StatusVerified(first)
  <2>1. ~StatusVerified(first)
    BY <1>4, NoneIsNothing DEF Prepared, NoValidation, StatusVerified
  <2> QED BY <1>4, <2>1 DEF Ran, Prepared, Vouched
<1>6. /\ Ran(file, executed)
      /\ \/ executed = first
         \/ /\ executed.execution \in {"verified", "unverified"}
            /\ executed.validation.status = executed.execution
            /\ executed.execution = "verified" /\ ToldApart(executed) => Sound(executed)
  <2>1. CASE DOMAIN first.contracts = {}
    BY <1>5, <2>1
  <2>2. CASE DOMAIN first.contracts # {}
    <3>1. executed = Executed(file, first)
      BY <2>2
    <3> HIDE DEF executed
    <3>2. /\ Ran(file, executed) /\ executed.contracts = first.contracts
          /\ executed.execution \in {"verified", "unverified"}
          /\ executed.validation.status = executed.execution
          /\ executed.execution = "verified" /\ ToldApart(first) => Sound(executed)
      BY <1>4, <3>1, ExecutedFields
    <3>3. ToldApart(first) <=> ToldApart(executed)
      BY <3>2 DEF ToldApart
    <3> QED BY <3>2, <3>3
  <2> QED BY <2>1, <2>2
<1>7. first.execution = None
  BY <1>4 DEF Prepared
<1> HIDE DEF executed, Sound
\* What compiling leaves of a sound record.
<1>8. ASSUME NEW r, Ran(file, r), StatusVerified(r), Sound(r)
      PROVE  Sound(Compiled(r))
  <2>1. r \in Records /\ Clean(r.anchors) /\ Vouched(r)
    BY <1>8 DEF Ran
  <2> DEFINE c == Compiled(r)
             f == r.validation.extractor
  <2>2. Same(c, r) /\ SameRegexes(c.anchors, r.anchors) /\ Trusted(c.anchors, r)
    BY <1>8, <2>1, CompiledVerified
  <2>3. f \in Extractors /\ Stands(r.anchors, f) /\ r.schema.fields \subseteq GroupsOf(f)
    BY <1>8, <2>1 DEF Vouched, Sound
  <2> HIDE DEF c
  <2>4. c.validation.extractor = f /\ c.schema = r.schema
    BY <2>2 DEF Same
  <2>5. HeldBy(c.anchors, f)
    BY <2>2, <2>3 DEF Trusted
  <2>6. Stands(c.anchors, f)
    BY <2>2, <2>3, StandsByRegexes
  <2> QED BY <2>3, <2>4, <2>5, <2>6 DEF Sound, c
<1>9. /\ Ran(file, x)
      /\ StatusVerified(x) /\ x.execution # "unverified" /\ ToldApart(x) /\ SameIdentity(p, base)
         => Sound(x)
  <2>1. CASE executed.execution = "verified" \/ (executed.execution # None /\ candidates = <<>>)
    <3>1. x = Compiled(executed)
      BY <2>1
    <3> HIDE DEF x
    <3>2. Same(x, executed) /\ Ran(file, x)
      <4>1. executed \in Records /\ Clean(executed.anchors) /\ Vouched(executed)
        BY <1>6 DEF Ran
      <4> QED BY <1>6, <3>1, <4>1, RanCompiled, CompiledVerified, CompiledUnverified
    <3>3. /\ StatusVerified(x) <=> StatusVerified(executed)
          /\ ToldApart(x) <=> ToldApart(executed)
      BY <3>2 DEF Same, StatusVerified, ToldApart
    <3>4. ASSUME StatusVerified(x), ToldApart(x) PROVE Sound(x)
      <4>1. executed # first
        BY <1>5, <3>3, <3>4
      <4>2. Sound(executed)
        BY <1>6, <3>3, <3>4, <4>1, NoneIsNothing DEF StatusVerified
      <4> QED BY <1>6, <1>8, <3>1, <3>3, <3>4, <4>2
    <3> QED BY <3>2, <3>4
  <2>2. CASE ~(executed.execution = "verified" \/ (executed.execution # None /\ candidates = <<>>))
             /\ candidates # <<>>
    <3>1. x = Compiled(v)
      BY <2>2
    <3>2. /\ Ran(file, v) /\ v.contracts = executed.contracts
          /\ v.execution = executed.execution /\ v.schema.fields = executed.schema.fields
          /\ v.validation.status \in {"verified", "unverified"}
          /\ v.validation.status = "verified" =>
                /\ HeldBy(v.anchors, v.validation.extractor)
                /\ Stands(v.anchors, v.validation.extractor)
                /\ \E i \in DOMAIN candidates :
                        candidates[i].fields \subseteq GroupsOf(v.validation.extractor)
      <4>1. /\ executed \in Records /\ Clean(executed.anchors)
            /\ executed.contracts \in UsableLists
        BY <1>6 DEF Ran
      <4> QED BY <1>2, <4>1, ValidatedFields
    <3> HIDE DEF v, x
    <3>3. Same(x, v) /\ Ran(file, x)
      <4>1. v \in Records /\ Clean(v.anchors) /\ Vouched(v)
        BY <3>2 DEF Ran
      <4> QED BY <3>1, <3>2, <4>1, RanCompiled, CompiledVerified, CompiledUnverified
    <3>4. StatusVerified(x) <=> StatusVerified(v)
      BY <3>3 DEF Same, StatusVerified
    <3>5. ASSUME StatusVerified(x), x.execution # "unverified", SameIdentity(p, base)
          PROVE  Sound(x)
      <4>1. executed = first
        BY <1>6, <2>2, <3>2, <3>3, <3>5 DEF Same
      <4>2. v.schema.fields = p.schema.fields
        BY <1>3, <1>4, <3>2, <3>5, <4>1
      <4>3. v.validation.status = "verified"
        BY <3>2, <3>4, <3>5, NoneIsNothing DEF StatusVerified
      <4>4. Sound(v)
        BY <1>2, <3>2, <3>5, <4>2, <4>3 DEF Sound
      <4> QED BY <1>8, <3>1, <3>2, <3>4, <3>5, <4>4
    <3> QED BY <3>3, <3>5
  <2>3. CASE ~(executed.execution = "verified" \/ (executed.execution # None /\ candidates = <<>>))
             /\ candidates = <<>>
    <3>1. x = executed
      BY <2>3
    <3>2. executed = first
      BY <1>6, <2>3, NoneIsNothing
    <3> QED BY <1>5, <3>1, <3>2
  <2> QED BY <2>1, <2>2, <2>3
<1> HIDE DEF x, m, v
<1>10. x \in Records /\ Clean(x.anchors)
  BY <1>9 DEF Ran
<1>11. /\ m \in Records /\ Same(m, x) /\ m.anchors = x.anchors
       /\ ContractState(m) = "verified" => m = x
       /\ ContractState(m) = "metadata_only" => m.units = "off" /\ ~m.chunkUnit
  BY <1>1, <1>10, UploadReadyFields
<1>12. Ran(file, m)
  BY <1>9, <1>10, <1>11, RanSame
<1>13. ContractState(m) = "verified" => StatusVerified(m)
  BY DEF ContractState
<1> QED BY <1>9, <1>11, <1>12, <1>13 DEF m, Sound

-----------------------------------------------------------------------------
(* What is sent *)

\* A record that a client may send: it has been run, and says whether units are
\* canonical once something in it is verified.
Sendable(file, m) == Ran(file, m) /\ (StatusVerified(m) => m.units # "absent")

LEMMA SuggestedSendable ==
    ASSUME NEW file \in Files, NEW p \in Proposals, NEW base \in Profiles \cup {None}
    PROVE  Sendable(file, Suggested(file, p, base))
<1> DEFINE m == Suggested(file, p, base)
<1>1. p \in Metadata /\ (base = None \/ base \in Metadata)
  BY InputsAssumption
<1>2. Ran(file, m) /\ (ContractState(m) = "metadata_only" => m.units = "off")
  BY <1>1, SuggestedRan
<1> HIDE DEF m
<1>3. ASSUME StatusVerified(m) PROVE m.units # "absent"
  <2>1. Declares(m)
    BY <1>3, NoneIsNothing DEF StatusVerified, Declares
  <2>2. ContractState(m) = "metadata_only" \/ m.units = "on"
    BY <2>1 DEF ContractState
  <2> QED BY <1>2, <2>2
<1> QED BY <1>2, <1>3 DEF Sendable, m

LEMMA EditedSendable ==
    ASSUME NEW file \in Files, NEW m, Sendable(file, m), NEW c \in Edited(m)
    PROVE  Sendable(file, c)
<1>1. m \in Records /\ Clean(m.anchors) /\ Ran(file, m) /\ (StatusVerified(m) => m.units # "absent")
  BY DEF Sendable, Ran
<1>2. ASSUME NEW r \in Safe, c = [m EXCEPT !.anchors["primary"].regex = r]
      PROVE  Sendable(file, c)
  <2> DEFINE x == [m.anchors["primary"] EXCEPT !.regex = r]
             a == [m.anchors EXCEPT !["primary"] = x]
  <2>1. m.anchors \in Anchorings
    BY <1>1 DEF Records
  <2>2. x \in Anchors /\ x.regex = r
    BY <2>1, ContractAssumption DEF Anchorings, Anchors, AnchorKinds
  <2>3. c = [m EXCEPT !.anchors = a]
    BY <1>2
  <2> HIDE DEF x
  <2>4. a \in Anchorings /\ Clean(a)
    BY <1>1, <2>1, <2>2, NoneIsNothing DEF Anchorings, Clean, AnchorKinds
  <2> HIDE DEF a
  <2>5. c \in Records /\ Same(c, m) /\ c.anchors = a /\ c.units = m.units
    BY <1>1, <2>3, <2>4 DEF Records, Same
  <2>6. StatusVerified(c) <=> StatusVerified(m)
    BY <2>5 DEF Same, StatusVerified
  <2> QED BY <1>1, <2>4, <2>5, <2>6, RanSame DEF Sendable
<1>3. ASSUME c = [m EXCEPT !.units = "on"] PROVE Sendable(file, c)
  <2>1. c \in Records /\ Same(c, m) /\ c.anchors = m.anchors /\ c.units = "on"
    BY <1>1, <1>3 DEF Records, Same
  <2> QED BY <1>1, <2>1, RanSame DEF Sendable
<1> QED BY <1>2, <1>3 DEF Edited

LEMMA SentSendable ==
    ASSUME NEW file \in Files, NEW m \in Sent[file]
    PROVE  Sendable(file, m) /\ Accepted(m)
<1>1. /\ Accepted(m)
      /\ m \in UNION {Edited(Suggested(file, p, b)) : p \in Proposals, b \in Profiles \cup {None}}
  BY DEF Sent
<1>2. PICK p \in Proposals, b \in Profiles \cup {None} : m \in Edited(Suggested(file, p, b))
  BY <1>1
<1> QED BY <1>1, <1>2, SuggestedSendable, EditedSendable

OptionRecords ==
    [cut : Extractors \cup {None}, stored : Extractors \cup {None},
     own : BOOLEAN, toldApart : BOOLEAN]

\* The contract such options store is the one they cut by, and it was executed
\* on the document.
OptionsOK(o) ==
    /\ o \in OptionRecords
    /\ o.cut = o.stored
    /\ o.own /\ o.toldApart /\ o.cut # None => Found(Watched, o.cut) > 0

LEMMA OptionsHold ==
    ASSUME NEW file \in Files, NEW m, Ran(file, m)
    PROVE  OptionsOK(Options(m, file))
<1> DEFINE o == Options(m, file)
<1>1. m \in Records /\ Clean(m.anchors) /\ Vouched(m)
  BY DEF Ran
<1>2. /\ o.cut = Cut(Compiled(m)) /\ o.stored = Stored(Compiled(m))
      /\ o.own <=> file = Watched
      /\ o.toldApart <=> ToldApart(m)
  BY DEF Options
<1>3. o.cut = o.stored
  BY <1>1, <1>2, CompiledCut
<1>4. o.cut # None => StatusVerified(m) /\ o.cut = m.validation.extractor
  BY <1>1, <1>2, CompiledCut
<1>5. o.cut \in Extractors \cup {None}
  BY <1>1, <1>4 DEF Vouched
<1>6. o \in OptionRecords
  <2>1. Cut(Compiled(m)) \in Extractors \cup {None} /\ Stored(Compiled(m)) \in Extractors \cup {None}
    BY <1>2, <1>3, <1>5
  <2>2. (file = Watched) \in BOOLEAN /\ ToldApart(m) \in BOOLEAN
    BY DEF ToldApart
  <2> QED BY <2>1, <2>2 DEF Options, OptionRecords
<1> HIDE DEF o
<1> QED BY <1>2, <1>3, <1>4, <1>6 DEF OptionsOK, Ran, o

\* Blank options cut nothing.
LEMMA NoOptionsHold == OptionsOK(NoOptions)
<1>1. Blank \in Records /\ Clean(Blank.anchors)
  <2>1. NoAnchor \in Anchors /\ NoAnchor.regex = None /\ ~NoAnchor.verified
    BY DEF NoAnchor, Anchors
  <2>2. Blank.anchors \in Anchorings /\ Clean(Blank.anchors)
    BY <2>1 DEF Blank, Anchorings, Clean
  <2>3. <<>> \in Lists
    <3>1. <<>> \in [1 .. 0 -> Contracts]
      OBVIOUS
    <3>2. 1 .. 0 \in SUBSET Nat /\ IsFiniteSet(1 .. 0)
      BY FS_Interval
    <3> QED BY <3>1, <3>2 DEF Lists
  <2>4. NoSchema \in Schemas /\ NoValidation \in Validations
    BY DEF NoSchema, Schemas, NoValidation, Validations, Statuses
  <2> DEFINE a == [k \in AnchorKinds |-> NoAnchor]
  <2>5. a \in Anchorings /\ Clean(a)
    BY <2>2 DEF Blank
  <2> HIDE DEF a
  <2>6. Blank = [schema |-> NoSchema, anchors |-> a,
          units |-> "absent", chunkUnit |-> FALSE, contracts |-> <<>>,
          execution |-> None, validation |-> NoValidation]
    BY DEF Blank, a
  <2> QED BY <2>3, <2>4, <2>5, <2>6 DEF Records, Statuses
<1>2. ~StatusVerified(Blank)
  BY NoneIsNothing DEF StatusVerified, Blank, NoValidation
<1>3. Vouched(Blank)
  BY <1>2 DEF Vouched
<1>4. Cut(Compiled(Blank)) = None /\ Stored(Compiled(Blank)) = None
  BY <1>1, <1>2, <1>3, CompiledCut
<1>5. NoOptions \in OptionRecords
  <2>1. (None = Watched) \in BOOLEAN /\ ToldApart(Blank) \in BOOLEAN
    BY DEF ToldApart
  <2> QED BY <1>4, <2>1 DEF NoOptions, Options, OptionRecords
<1> QED BY <1>4, <1>5 DEF NoOptions, Options, OptionsOK

-----------------------------------------------------------------------------
(* What compiling makes acceptable *)

\* Regexes and contracts of a record that has been run are well formed.
LEMMA RanWellFormed ==
    ASSUME NEW file, NEW m, Ran(file, m)
    PROVE  WellFormed(Compiled(m))
<1> DEFINE c == Compiled(m)
<1>1. Ran(file, c)
  BY RanCompiled
<1> HIDE DEF c
<1>2. AnchorsAdmitted(c)
  BY <1>1 DEF Ran, Clean, AnchorsAdmitted
<1>3. \A i \in DOMAIN c.contracts : ContractAdmitted(c.contracts[i])
  BY <1>1, UsableElements DEF Ran, Usable
<1>4. \A g \in Range(c.contracts) : ContractAdmitted(g)
  BY <1>3 DEF Range
<1> QED BY <1>2, <1>4 DEF WellFormed, c

\* Without canonical units nothing is cut, and a record without a chunk unit of
\* its own is accepted.
LEMMA UnitsOff ==
    ASSUME NEW file, NEW m, Ran(file, m), m.units = "off", ~m.chunkUnit
    PROVE  Accepted(m) /\ Cut(Compiled(m)) = None
<1> DEFINE c == Compiled(m)
<1>1. m \in Records /\ Clean(m.anchors) /\ Vouched(m)
  BY DEF Ran
<1>2. c.units = "off" /\ ~c.chunkUnit
  <2>1. CASE StatusVerified(m)
    BY <1>1, <2>1, CompiledVerified
  <2>2. CASE ~StatusVerified(m)
    BY <1>1, <2>2, CompiledUnverified
  <2> QED BY <2>1, <2>2
<1>3. WellFormed(c)
  BY RanWellFormed
<1> HIDE DEF c
<1>4. Indexable(c) /\ Cut(c) = None
  BY <1>2 DEF Indexable, Cut
<1> QED BY <1>3, <1>4 DEF Accepted, c

\* Anchors that are a verified extractor, naming the identity fields, are
\* accepted, cut the chunks and are stored.
LEMMA UnitsOn ==
    ASSUME NEW file, NEW m, Ran(file, m), StatusVerified(m), m.units = "on",
           m.schema.fields # {}, m.execution # "unverified",
           Stands(m.anchors, m.validation.extractor),
           m.schema.fields \subseteq GroupsOf(m.validation.extractor)
    PROVE  /\ Accepted(m) /\ Cut(Compiled(m)) # None
           /\ Stored(Compiled(m)) = Cut(Compiled(m))
<1> DEFINE c == Compiled(m)
           e == m.validation.extractor
<1>1. m \in Records /\ Clean(m.anchors) /\ Vouched(m)
  BY DEF Ran
<1>2. c \in Records /\ Same(c, m) /\ c.units = "on" /\ Trusted(c.anchors, m)
  BY <1>1, CompiledVerified
<1>3. HeldBy(c.anchors, e) /\ e \in Extractors
  BY <1>1, <1>2 DEF Trusted, Vouched
<1>4. WellFormed(c)
  BY RanWellFormed
<1> HIDE DEF c
<1>5. /\ StatusVerified(c) /\ Vouched(c) /\ c.validation.extractor = e
      /\ c.schema = m.schema
  BY <1>1, <1>2 DEF Same, StatusVerified, Vouched
<1>6. /\ PrimaryVerified(c) \/ ContextVerified(c)
      /\ Cut(c) = e /\ Cut(c) = Stored(c)
  BY <1>2, <1>3, <1>5, CutIsStored
<1>7. Indexable(c)
  BY <1>2, <1>5, <1>6 DEF Indexable
<1>8. e # None
  BY <1>3, InputsAssumption
<1> QED BY <1>4, <1>6, <1>7, <1>8 DEF Accepted, c

\* What the badge of a suggestion says is what uploading it does.
LEMMA StateTells ==
    ASSUME NEW file \in Files, NEW p \in Proposals, NEW base \in Profiles \cup {None}
    PROVE  LET m == Suggested(file, p, base)
           IN CASE ContractState(m) = "metadata_only" ->
                       Accepted(m) /\ Cut(Compiled(m)) = None
                [] ContractState(m) = "verified"
                       /\ m.execution # "unverified" /\ ToldApart(m) /\ SameIdentity(p, base) ->
                       /\ Accepted(m) /\ Cut(Compiled(m)) # None
                       /\ Stored(Compiled(m)) = Cut(Compiled(m))
                [] OTHER -> TRUE
<1> DEFINE m == Suggested(file, p, base)
<1>1. p \in Metadata /\ (base = None \/ base \in Metadata)
  BY InputsAssumption
<1>2. /\ Ran(file, m)
      /\ ContractState(m) = "metadata_only" => m.units = "off" /\ ~m.chunkUnit
      /\ /\ ContractState(m) = "verified" /\ m.execution # "unverified"
         /\ ToldApart(m) /\ SameIdentity(p, base)
         => /\ Stands(m.anchors, m.validation.extractor)
            /\ m.schema.fields \subseteq GroupsOf(m.validation.extractor)
  BY <1>1, SuggestedRan
<1> HIDE DEF m
<1>3. ContractState(m) = "metadata_only" => Accepted(m) /\ Cut(Compiled(m)) = None
  BY <1>2, UnitsOff
<1>4. ContractState(m) = "verified" =>
        StatusVerified(m) /\ m.units = "on" /\ m.schema.fields # {}
  BY DEF ContractState
<1>5. ASSUME ContractState(m) = "verified", m.execution # "unverified", ToldApart(m),
             SameIdentity(p, base)
      PROVE  /\ Accepted(m) /\ Cut(Compiled(m)) # None
             /\ Stored(Compiled(m)) = Cut(Compiled(m))
  BY <1>2, <1>4, <1>5, UnitsOn
<1> QED BY <1>3, <1>5 DEF m

\* Compiling again changes neither what cuts chunks nor what is accepted.
LEMMA CompiledAgain ==
    ASSUME NEW file \in Files, NEW m, Sendable(file, m), Accepted(m)
    PROVE  Accepted(Compiled(m)) /\ Options(Compiled(m), file) = Options(m, file)
<1> DEFINE c == Compiled(m)
           d == Compiled(c)
           e == m.validation.extractor
<1>1. /\ Ran(file, m) /\ m \in Records /\ Clean(m.anchors) /\ Vouched(m)
      /\ StatusVerified(m) => m.units # "absent"
  BY DEF Sendable, Ran
<1>2. /\ Ran(file, c) /\ c \in Records /\ Clean(c.anchors) /\ Vouched(c)
      /\ Same(c, m) /\ SameRegexes(c.anchors, m.anchors)
  <2>1. Ran(file, c)
    BY <1>1, RanCompiled
  <2> QED BY <1>1, <2>1, CompiledVerified, CompiledUnverified DEF Ran
<1>3. WellFormed(d)
  BY <1>2, RanWellFormed
<1>4. Indexable(c)
  BY DEF Accepted
<1>5. /\ StatusVerified(c) <=> StatusVerified(m)
      /\ ToldApart(c) <=> ToldApart(m)
      /\ c.validation = m.validation /\ c.schema = m.schema /\ c.execution = m.execution
  <2> HIDE DEF c
  <2> QED BY <1>2 DEF Same, StatusVerified, ToldApart
<1>6. Cut(c) = Stored(c) /\ Cut(d) = Stored(d)
  BY <1>1, <1>2, CompiledCut
<1>7. ASSUME ~StatusVerified(m) PROVE Indexable(d) /\ Cut(d) = Cut(c)
  <2>1. Cut(c) = None /\ Cut(d) = None
    BY <1>1, <1>2, <1>5, <1>7, CompiledCut
  <2>2. d.chunkUnit = c.chunkUnit /\ Same(d, c) /\ (c.units # "on" => d.units = c.units)
    BY <1>2, <1>5, <1>7, CompiledUnverified
  <2> HIDE DEF c, d
  <2>3. c.units # "on" /\ ~(c.schema.type # None /\ c.chunkUnit)
    BY <1>4, <1>5, <1>7 DEF Indexable
  <2>4. Indexable(d)
    BY <2>2, <2>3 DEF Indexable, Same
  <2> QED BY <2>1, <2>4 DEF c, d
<1>8. ASSUME StatusVerified(m) PROVE Indexable(d) /\ Cut(d) = Cut(c)
  <2>1. m.units \in {"off", "on"} /\ c.units = IF m.execution = "unverified" THEN "off" ELSE m.units
    <3>1. m.units \in {"absent", "off", "on"}
      BY <1>1 DEF Records
    <3> QED BY <1>1, <1>8, <3>1, CompiledVerified
  <2>2. d.units = IF c.execution = "unverified" THEN "off" ELSE c.units
    BY <1>2, <1>5, <1>8, <2>1, CompiledVerified
  <2>3. d.units = c.units
    BY <1>5, <2>1, <2>2
  <2>4. /\ d \in Records /\ Same(d, c) /\ d.chunkUnit = c.chunkUnit
        /\ Trusted(c.anchors, m) /\ Trusted(d.anchors, c)
    BY <1>1, <1>2, <1>5, <1>8, CompiledVerified
  <2> HIDE DEF c, d
  <2>5. d.validation = c.validation /\ d.schema = c.schema /\ StatusVerified(d)
    BY <1>5, <1>8, <2>4 DEF Same, StatusVerified
  <2>6. e \in Extractors
    BY <1>1, <1>8 DEF Vouched
  <2>7. Stands(c.anchors, e) <=> Stands(m.anchors, e)
    BY <1>2, <2>6, StandsByRegexes
  <2>8. \/ HeldBy(c.anchors, e) /\ HeldBy(d.anchors, e)
        \/ Unverified(c.anchors) /\ Unverified(d.anchors)
    BY <1>5, <2>4, <2>7 DEF Trusted
  <2>9. /\ PrimaryVerified(d) <=> PrimaryVerified(c)
        /\ ContextVerified(d) <=> ContextVerified(c)
    <3>1. CASE Unverified(c.anchors) /\ Unverified(d.anchors)
      BY <3>1 DEF Unverified, PrimaryVerified, ContextVerified, AnchorKinds
    <3>2. CASE HeldBy(c.anchors, e) /\ HeldBy(d.anchors, e) /\ Len(e) = 1
      BY <2>5, <3>2 DEF HeldBy, PrimaryVerified, ContextVerified
    <3>3. CASE HeldBy(c.anchors, e) /\ HeldBy(d.anchors, e) /\ Len(e) = 2
      BY <2>5, <3>3 DEF HeldBy, PrimaryVerified, ContextVerified
    <3> QED BY <2>8, <3>1, <3>2, <3>3 DEF HeldBy
  <2>10. Indexable(d)
    BY <1>4, <1>5, <1>8, <2>3, <2>4, <2>5, <2>9 DEF Indexable
  <2>11. Cut(d) = Cut(c)
    <3>1. CASE Unverified(c.anchors) /\ Unverified(d.anchors)
      BY <2>3, <2>5, <3>1 DEF Cut, Unverified, PrimaryVerified, ContextVerified, AnchorKinds
    <3>2. CASE HeldBy(c.anchors, e) /\ HeldBy(d.anchors, e) /\ Len(e) = 1
      <4>1. c.anchors["primary"] = d.anchors["primary"] /\ ~ContextVerified(c)
        BY <3>2 DEF HeldBy, ContextVerified
      <4> QED BY <1>5, <1>8, <2>3, <2>5, <2>9, <4>1 DEF Cut
    <3>3. CASE HeldBy(c.anchors, e) /\ HeldBy(d.anchors, e) /\ Len(e) = 2
      <4>1. /\ c.anchors["context"] = d.anchors["context"]
            /\ c.anchors["unit"] = d.anchors["unit"] /\ ~PrimaryVerified(c)
        BY <3>3 DEF HeldBy, PrimaryVerified
      <4> QED BY <1>5, <1>8, <2>3, <2>5, <2>9, <4>1 DEF Cut
    <3> QED BY <2>8, <3>1, <3>2, <3>3 DEF HeldBy
  <2> QED BY <2>10, <2>11 DEF c, d
<1>9. Accepted(c)
  BY <1>3, <1>7, <1>8 DEF Accepted
<1>10. ToldApart(c) = ToldApart(m)
  <2> HIDE DEF c
  <2> QED BY <1>2 DEF Same, ToldApart
<1>11. Cut(d) = Cut(c) /\ Stored(d) = Stored(c)
  BY <1>6, <1>7, <1>8
<1>12. Options(c, file) = Options(m, file)
  BY <1>10, <1>11 DEF Options
<1> QED BY <1>9, <1>12

\* Options that were compiled for an index job compile to themselves: what
\* compile_index_options let through once it lets through again, to cut the same
\* chunks and to store the same contract, so that a reindex with the options of
\* an earlier job is a repetition.
THEOREM CompilesToItself == Recompiles
BY SentSendable, CompiledAgain DEF Recompiles

-----------------------------------------------------------------------------
(* The inductive invariant *)

\* What the page holds was analysed of the file it has selected.
PageInv ==
    /\ selected \in Files \cup {None}
    /\ suggestion # None =>
        /\ suggestion \in [file : Files, proposal : Proposals]
        /\ suggestion.file = selected
    /\ requests \subseteq [file : Files, current : BOOLEAN]
    /\ \A r \in requests : r.current => r.file = selected

\* What jobs and chunks are made of was executed; the contract is that of the
\* job which runs, and then of the chunks it has left.
DocumentInv ==
    /\ contract \in Extractors \cup {None}
    /\ job \in [state : {"none", "queued", "running", "ended"}, options : OptionRecords]
    /\ status \in {"absent", "running", "succeeded", "failed"}
    /\ overtaken \in BOOLEAN
    /\ OptionsOK(job.options)
    /\ chunks # None => OptionsOK(chunks)
    /\ job.state = "running" /\ ~overtaken => contract = job.options.stored
    /\ status = "succeeded" =>
        job.state = "ended" /\ (~overtaken => contract = chunks.cut)

IInv == PageInv /\ DocumentInv

LEMMA InitInvariant == Init => IInv
<1> SUFFICES ASSUME Init PROVE IInv
  OBVIOUS
<1>1. PageInv
  BY DEF Init, PageInv
<1>2. OptionsOK(NoOptions) /\ NoOptions \in OptionRecords
  BY NoOptionsHold DEF OptionsOK
<1>3. DocumentInv
  BY <1>2 DEF Init, DocumentInv
<1> QED BY <1>1, <1>3 DEF IInv

\* The options of an upload or of a reindex, whoever sends them.
LEMMA PackagesHold == \A package \in Packages : OptionsOK(package)
<1> SUFFICES ASSUME NEW package \in Packages PROVE OptionsOK(package)
  OBVIOUS
<1>1. PICK file \in Files : package \in {Options(m, file) : m \in Sent[file]}
  BY DEF Packages
<1>2. PICK m \in Sent[file] : package = Options(m, file)
  BY <1>1
<1>3. Ran(file, m)
  BY SentSendable DEF Sendable
<1> QED BY <1>2, <1>3, OptionsHold

\* Options whose analysis is taken for that of another content.
LEMMA DisownedHold ==
    ASSUME NEW o, OptionsOK(o)
    PROVE  OptionsOK([o EXCEPT !.own = FALSE])
<1>1. o \in OptionRecords
  BY DEF OptionsOK
<1> QED BY <1>1 DEF OptionsOK, OptionRecords

LEMMA EnqueueStep ==
    ASSUME DocumentInv, NEW o, OptionsOK(o), Enqueue(o)
    PROVE  DocumentInv'
<1>1. o \in OptionRecords
  BY DEF OptionsOK
<1>2. o.stored \in Extractors \cup {None}
  BY <1>1 DEF OptionRecords
<1> QED BY <1>1, <1>2 DEF Enqueue, DocumentInv, OptionsOK

LEMMA ReceiveStep ==
    ASSUME DocumentInv, NEW o, OptionsOK(o), Receive(o)
    PROVE  DocumentInv'
<1>1. CASE ~Active
  BY <1>1, EnqueueStep DEF Receive
<1>2. CASE Active
  <2>1. o.stored \in Extractors \cup {None}
    BY DEF OptionsOK, OptionRecords
  <2>2. /\ contract' = o.stored /\ overtaken' = (overtaken \/ job.state = "running")
        /\ UNCHANGED <<chunks, job, status>>
    BY <1>2 DEF Receive
  <2>3. status # "succeeded"
    BY <1>2 DEF Active, DocumentInv
  <2> QED BY <2>1, <2>2, <2>3 DEF DocumentInv, OptionsOK
<1> QED BY <1>1, <1>2

LEMMA DocumentUnchanged ==
    ASSUME DocumentInv, UNCHANGED documentVars
    PROVE  DocumentInv'
BY DEF DocumentInv, documentVars, OptionsOK

LEMMA PageUnchanged ==
    ASSUME PageInv, UNCHANGED pageVars
    PROVE  PageInv'
BY DEF PageInv, pageVars

LEMMA OutdatedRequests ==
    ASSUME PageInv
    PROVE  /\ Outdated(requests) \subseteq [file : Files, current : BOOLEAN]
           /\ \A r \in Outdated(requests) : ~r.current
<1>1. ASSUME NEW r \in requests
      PROVE  /\ [r EXCEPT !.current = FALSE] \in [file : Files, current : BOOLEAN]
             /\ ~[r EXCEPT !.current = FALSE].current
  BY DEF PageInv
<1> QED BY <1>1 DEF Outdated

LEMMA PageStep == IInv /\ Page => IInv'
<1> SUFFICES ASSUME IInv, Page PROVE IInv'
  OBVIOUS
<1>0. PageInv /\ DocumentInv
  BY DEF IInv
<1>1. ASSUME NEW file \in Files, SelectFile(file) PROVE IInv'
  <2>1. PageInv'
    BY <1>0, <1>1, OutdatedRequests DEF SelectFile, PageInv
  <2> QED BY <1>0, <1>1, <2>1, DocumentUnchanged DEF SelectFile, IInv
<1>2. CASE Analyze
  <2>1. selected \in Files
    BY <1>0, <1>2 DEF Analyze, PageInv
  <2> DEFINE r == [file |-> selected, current |-> TRUE]
  <2>2. r \in [file : Files, current : BOOLEAN] /\ r.file = selected
    BY <2>1
  <2>3. requests' = requests \cup {r} /\ selected' = selected /\ suggestion' = None
    BY <1>2 DEF Analyze
  <2> HIDE DEF r
  <2>4. PageInv'
    BY <1>0, <2>2, <2>3 DEF PageInv
  <2> QED BY <1>0, <1>2, <2>4, DocumentUnchanged DEF Analyze, IInv
<1>3. ASSUME NEW r \in requests, AnalysisFails(r) PROVE IInv'
  <2>1. PageInv'
    BY <1>0, <1>3 DEF AnalysisFails, PageInv
  <2> QED BY <1>0, <1>3, <2>1, DocumentUnchanged DEF AnalysisFails, IInv
<1>4. ASSUME NEW r \in requests, NEW p \in Proposals, AnalysisReturns(r, p) PROVE IInv'
  <2>1. r.file \in Files /\ (r.current => r.file = selected)
    BY <1>0 DEF PageInv
  <2>2. /\ requests' = requests \ {r} /\ selected' = selected
        /\ suggestion' = IF r.current THEN [file |-> r.file, proposal |-> p] ELSE suggestion
    BY <1>4 DEF AnalysisReturns
  <2>3. PageInv'
    BY <1>0, <2>1, <2>2 DEF PageInv
  <2> QED BY <1>0, <1>4, <2>3, DocumentUnchanged DEF AnalysisReturns, IInv
<1>5. CASE Upload
  <2> DEFINE m == Suggested(Offered.file, Offered.proposal, None)
  <2>1. Offered # None /\ Offered = suggestion /\ suggestion # None
    BY <1>5 DEF Upload, Offered
  <2>2. Offered.file \in Files /\ Offered.proposal \in Proposals
    BY <1>0, <2>1 DEF PageInv
  <2>3. CASE Accepted(m) /\ Offered.file = selected
    <3>1. /\ selected' = None /\ suggestion' = None /\ requests' = Outdated(requests)
          /\ IF selected = Watched THEN Receive(Options(m, Watched)) ELSE UNCHANGED documentVars
      BY <1>5, <2>3 DEF Upload
    <3>2. PageInv'
      BY <1>0, <3>1, OutdatedRequests DEF PageInv
    <3>3. Ran(Offered.file, m)
      BY <2>2, SuggestedSendable DEF Sendable
    <3> HIDE DEF m
    <3>4. DocumentInv'
      <4>1. CASE selected = Watched
        <5>1. OptionsOK(Options(m, Watched))
          BY <2>2, <2>3, <3>3, <4>1, OptionsHold
        <5> QED BY <1>0, <3>1, <4>1, <5>1, ReceiveStep
      <4>2. CASE selected # Watched
        BY <1>0, <3>1, <4>2, DocumentUnchanged
      <4> QED BY <4>1, <4>2
    <3> QED BY <3>2, <3>4 DEF IInv
  <2>4. CASE ~(Accepted(m) /\ Offered.file = selected)
    <3>1. UNCHANGED vars
      BY <1>5, <2>4 DEF Upload
    <3> QED BY <1>0, <3>1, PageUnchanged, DocumentUnchanged DEF vars, pageVars, documentVars, IInv
  <2> QED BY <2>3, <2>4
<1>6. CASE ReindexOffered
  <2>1. Enqueue(LatestOptions) /\ UNCHANGED pageVars
    BY <1>6 DEF ReindexOffered
  <2>2. OptionsOK(LatestOptions)
    BY <1>0, DisownedHold DEF LatestOptions, DocumentInv
  <2> QED BY <1>0, <2>1, <2>2, EnqueueStep, PageUnchanged DEF IInv
<1> QED BY <1>1, <1>2, <1>3, <1>4, <1>5, <1>6 DEF Page

LEMMA ClientStep == IInv /\ Client => IInv'
<1> SUFFICES ASSUME IInv, Client PROVE IInv'
  OBVIOUS
<1>0. PageInv /\ DocumentInv
  BY DEF IInv
<1>1. ASSUME NEW package \in Packages, ClientUpload(package) PROVE IInv'
  <2>1. OptionsOK(package) /\ OptionsOK([package EXCEPT !.own = FALSE])
    BY PackagesHold, DisownedHold
  <2>2. Receive(package) \/ Receive([package EXCEPT !.own = FALSE])
    BY <1>1 DEF ClientUpload
  <2>3. DocumentInv'
    BY <1>0, <2>1, <2>2, ReceiveStep
  <2> QED BY <1>0, <1>1, <2>3, PageUnchanged DEF ClientUpload, IInv
<1>2. ASSUME NEW package \in Packages, ClientReindex(package) PROVE IInv'
  <2>1. OptionsOK(package) /\ Enqueue(package)
    BY <1>2, PackagesHold DEF ClientReindex
  <2> QED BY <1>0, <1>2, <2>1, EnqueueStep, PageUnchanged DEF ClientReindex, IInv
<1>3. OptionsOK(NoOptions) /\ NoOptions \in OptionRecords
  BY NoOptionsHold DEF OptionsOK
<1>4. CASE PlainUpload
  <2>1. DocumentInv'
    BY <1>0, <1>3, <1>4 DEF PlainUpload, DocumentInv, OptionsOK
  <2> QED BY <1>0, <1>4, <2>1, PageUnchanged DEF PlainUpload, pageVars, IInv
<1>5. CASE DeleteDocument
  <2>1. DocumentInv'
    BY <1>0, <1>3, <1>5 DEF DeleteDocument, DocumentInv, OptionsOK
  <2> QED BY <1>0, <1>5, <2>1, PageUnchanged DEF DeleteDocument, IInv
<1> QED BY <1>1, <1>2, <1>4, <1>5 DEF Client

LEMMA WorkerStep == IInv /\ Worker => IInv'
<1> SUFFICES ASSUME IInv, Worker PROVE IInv'
  OBVIOUS
<1>0. PageInv /\ DocumentInv
  BY DEF IInv
<1>1. /\ job \in [state : {"none", "queued", "running", "ended"}, options : OptionRecords]
      /\ job.options.stored \in Extractors \cup {None}
      /\ OptionsOK(job.options) /\ job.options.cut = job.options.stored
  BY <1>0 DEF DocumentInv, OptionsOK, OptionRecords
<1>2. CASE StartJob
  <2>1. DocumentInv'
    BY <1>0, <1>1, <1>2 DEF StartJob, DocumentInv, OptionsOK
  <2> QED BY <1>0, <1>2, <2>1, PageUnchanged DEF StartJob, pageVars, IInv
<1>3. CASE FinishJob
  <2>1. DocumentInv'
    BY <1>0, <1>1, <1>3 DEF FinishJob, DocumentInv, OptionsOK
  <2> QED BY <1>0, <1>3, <2>1, PageUnchanged DEF FinishJob, pageVars, IInv
<1>4. CASE FailJob
  <2>1. DocumentInv'
    BY <1>0, <1>1, <1>4 DEF FailJob, DocumentInv, OptionsOK
  <2> QED BY <1>0, <1>4, <2>1, PageUnchanged DEF FailJob, pageVars, IInv
<1> QED BY <1>2, <1>3, <1>4 DEF Worker

LEMMA Invariant == Spec => []IInv
<1>1. IInv /\ [Next]_vars => IInv'
  <2> SUFFICES ASSUME IInv, [Next]_vars PROVE IInv'
    OBVIOUS
  <2>1. CASE UNCHANGED vars
    BY <2>1, PageUnchanged, DocumentUnchanged DEF vars, pageVars, documentVars, IInv
  <2> QED BY <2>1, PageStep, ClientStep, WorkerStep DEF Next
<1> QED BY <1>1, InitInvariant, PTL DEF Spec

-----------------------------------------------------------------------------
(* Theorems *)

\* Anchors that cut the chunks of a document were executed on its own content
\* and found units there, if the analysis was bound to it and its extractors
\* can be told apart: the validator has run them, compile_domain_metadata
\* verifies no others, and neither edits, failed jobs nor reindexing bring in
\* any.
THEOREM ChunksAreCutByExecutedAnchors == Spec => []CutsWereExecuted
<1>1. IInv => CutsWereExecuted
  BY DEF IInv, DocumentInv, OptionsOK, CutsWereExecuted
<1> QED BY <1>1, Invariant, PTL

\* While a document is indexed, and unless create_index_job has replaced its
\* contract under a RUNNING job, the index_contract it stores is what its chunks
\* were cut by: uploads beside a job that waits, failed jobs and reindexing keep
\* the two together.
THEOREM StoredContractMatches == Spec => []ContractMatchesChunks
<1>1. IInv => ContractMatchesChunks
  BY DEF IInv, DocumentInv, ContractMatchesChunks
<1> QED BY <1>1, Invariant, PTL

\* The page offers no analysis but that of the file it has selected, in whatever
\* order handleFileChange and the answers to analyzeSelectedFile come.
THEOREM OwnAnalysisOffered == Spec => []PageOffersOwnAnalysis
<1>1. IInv => PageOffersOwnAnalysis
  BY DEF IInv, PageInv, PageOffersOwnAnalysis, Offered
<1> QED BY <1>1, Invariant, PTL

\* What derive_contract_state says of a suggestion is what its upload does, for
\* any answer of the model.  One that is only metadata is accepted and cuts
\* nothing, whatever the profile.  A verified one is accepted, cuts, and is
\* stored, if the contract was executed and not only validated as a fallback, if
\* its extractors can be told apart, and if the profile adds no field or anchor
\* of its own; without the second of these, VerifiedSuggestionsUpload is violated.
THEOREM BadgeTellsUpload == Spec => []StateTellsUpload
<1>1. IInv => StateTellsUpload
  <2> SUFFICES ASSUME IInv, suggestion # None PROVE StateTellsUpload
    BY DEF StateTellsUpload
  <2>1. suggestion.file \in Files /\ suggestion.proposal \in Proposals
    BY DEF IInv, PageInv
  <2> QED BY <2>1, StateTells DEF StateTellsUpload
<1> QED BY <1>1, Invariant, PTL
=============================================================================
