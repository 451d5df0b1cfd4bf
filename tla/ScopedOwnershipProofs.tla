----------------------- MODULE ScopedOwnershipProofs -----------------------
(***************************************************************************)
(* Nothing leaks and nothing is freed twice, for any finite number of      *)
(* owners and resources, in each class of owner.                           *)
(***************************************************************************)
EXTENDS ScopedOwnership, FiniteSetTheorems, TLAPS

(* What the call of an owner says of it, and what dies. *)
Sound ==
  /\ \A o \in Owners :
       /\ At(o) \in {"none", "idle", "destroy"} => call[o].value = InvalidValue
       /\ At(o) \in {"none", "idle"} => ~call[o].freed
       /\ At(o) \in {"reset", "destroy"} => held[o] \in Resources
  /\ \A r \in dying : child[r] \in Resources /\ count[r] = 0

IInv == TypeOK /\ (~crashed => Sound /\ Balanced)

-----------------------------------------------------------------------------
LEMMA Sizes ==
  ASSUME NEW S, IsFiniteSet(S), NEW x
  PROVE  /\ Cardinality(S) \in Nat
         /\ x \notin S => Cardinality(S \cup {x}) = Cardinality(S) + 1
         /\ x \in S => Cardinality(S \ {x}) = Cardinality(S) - 1
  BY FS_CardinalityType, FS_AddElement, FS_RemoveElement

LEMMA HoldersFinite ==
  ASSUME NEW r \in Resources
  PROVE  IsFiniteSet(OwnersOf(r)) /\ IsFiniteSet(Pending(r)) /\ IsFiniteSet(Parents(r))
  BY OwnershipAssumption, FS_Subset DEF OwnersOf, Pending, Parents

(* The three kinds of holders of a resource, counted. *)
LEMMA HolderCounts ==
  ASSUME NEW r \in Resources
  PROVE  /\ Cardinality(OwnersOf(r)) \in Nat
         /\ Cardinality(Pending(r)) \in Nat
         /\ Cardinality(Parents(r)) \in Nat
  BY HoldersFinite, FS_CardinalityType

LEMMA HolderCountsNext ==
  ASSUME NEW r \in Resources
  PROVE  /\ Cardinality(OwnersOf(r)') \in Nat
         /\ Cardinality(Pending(r)') \in Nat
         /\ Cardinality(Parents(r)') \in Nat
  <1>1. IsFiniteSet(OwnersOf(r)') /\ IsFiniteSet(Pending(r)') /\ IsFiniteSet(Parents(r)')
    BY OwnershipAssumption, FS_Subset DEF OwnersOf, Pending, Parents
  <1> QED
    BY <1>1, FS_CardinalityType

(* An owner in OwnersOf, or one in Pending, or a parent, is a reference. *)
LEMMA HeldExists ==
  ASSUME TypeOK, Balanced, ~crashed, NEW r \in Resources,
         raw[r] > 0 \/ OwnersOf(r) # {} \/ Pending(r) # {} \/ Parents(r) # {}
  PROVE  count[r] > 0
  <1>1. OwnersOf(r) # {} => Cardinality(OwnersOf(r)) # 0
    BY HoldersFinite, FS_EmptySet
  <1>2. Pending(r) # {} => Cardinality(Pending(r)) # 0
    BY HoldersFinite, FS_EmptySet
  <1>3. Parents(r) # {} => Cardinality(Parents(r)) # 0
    BY HoldersFinite, FS_EmptySet
  <1>4. raw[r] \in Nat /\ count[r] \in Nat
    BY OwnershipAssumption DEF TypeOK
  <1>5. count[r] = raw[r] + Cardinality(OwnersOf(r)) + Cardinality(Pending(r))
                     + Cardinality(Parents(r))
    BY DEF Balanced
  <1> QED
    BY <1>1, <1>2, <1>3, <1>4, <1>5, HolderCounts

(* A value that is passed brings the owner a reference. *)
LEMMA PassedFacts ==
  ASSUME TypeOK, NEW value \in Values, NEW policy \in {"ASSUME", "RETAIN"},
         Passable(value, policy)
  PROVE  /\ Retained(value, policy) \in [Resources -> Nat]
         /\ Handed(value, policy) \in [Resources -> 0 .. MaxRaw]
         /\ \A r \in Resources :
              /\ Retained(value, policy)[r] - Handed(value, policy)[r]
                   = count[r] - raw[r] + (IF r = value THEN 1 ELSE 0)
              /\ Retained(value, policy)[r] > 0 <=> count[r] > 0
         /\ ~Counted => Retained(value, policy) = count
  <1>1. count \in [Resources -> Nat] /\ raw \in [Resources -> 0 .. MaxRaw] /\ MaxRaw \in Nat
    BY OwnershipAssumption DEF TypeOK
  <1>2. CASE value = InvalidValue
    BY <1>1, <1>2, OwnershipAssumption DEF Retained, Handed
  <1>3. CASE policy = "ASSUME" /\ value # InvalidValue
    <2>1. value \in Resources /\ raw[value] > 0
      BY <1>3 DEF Passable, Values
    <2>2. Retained(value, policy) = count /\ Handed(value, policy) = [raw EXCEPT ![value] = @ - 1]
      BY <1>3 DEF Retained, Handed
    <2> QED
      BY <1>1, <2>1, <2>2
  <1>4. CASE policy = "RETAIN" /\ value # InvalidValue
    <2>1. value \in Resources /\ count[value] > 0 /\ ~Generic
      BY <1>4 DEF Passable, Values
    <2>2. Handed(value, policy) = raw /\ Retained(value, policy) = [count EXCEPT ![value] = @ + 1]
      BY <1>4 DEF Retained, Handed
    <2>3. Counted
      BY <2>1 DEF Generic, Counted
    <2> QED
      BY <1>1, <2>1, <2>2, <2>3
  <1> QED
    BY <1>2, <1>3, <1>4

(* Losing a reference of a resource that exists. *)
LEMMA LoseFacts ==
  ASSUME TypeOK, Sound, NEW r \in Resources, count[r] > 0, Lose(r)
  PROVE  /\ count' \in [Resources -> Nat]
         /\ \A s \in Resources : count'[s] = count[s] - (IF s = r THEN 1 ELSE 0)
         /\ dying' \subseteq Resources
         /\ \A s \in dying' : child'[s] \in Resources /\ count'[s] = 0
         /\ child' = child
         /\ \A s \in Resources : Parents(s)' = Parents(s)
         /\ ~Counted => \A s \in Resources : count'[s] <= 1
  <1>1. /\ count \in [Resources -> Nat] /\ child \in [Resources -> Values]
        /\ dying \subseteq Resources
    BY DEF TypeOK
  <1>2. /\ count' = [count EXCEPT ![r] = @ - 1]
        /\ dying' = IF count[r] = 1 /\ child[r] # InvalidValue THEN dying \cup {r} ELSE dying
        /\ child' = child
    BY DEF Lose
  <1>3. \A s \in Resources : count'[s] = count[s] - (IF s = r THEN 1 ELSE 0)
    BY <1>1, <1>2
  <1>4. count' \in [Resources -> Nat]
    BY <1>1, <1>2
  <1>5. \A s \in dying' : child'[s] \in Resources /\ count'[s] = 0
    BY <1>1, <1>2, <1>3 DEF Sound, Values
  <1>6. ASSUME NEW s \in Resources
        PROVE  Parents(s)' = Parents(s)
    <2>1. ASSUME NEW q \in Resources, child[q] = s
          PROVE  (count'[q] > 0 \/ q \in dying') <=> (count[q] > 0 \/ q \in dying)
      BY <1>1, <1>2, <1>3, <2>1, OwnershipAssumption
    <2> QED
      BY <1>2, <2>1 DEF Parents
  <1>7. ~Counted => \A s \in Resources : count'[s] <= 1
    BY <1>1, <1>3 DEF TypeOK
  <1> QED
    BY <1>1, <1>2, <1>3, <1>4, <1>5, <1>6, <1>7

-----------------------------------------------------------------------------
LEMMA CreateKeeps ==
  ASSUME IInv, NEW r \in Resources, NEW c \in Values, Create(r, c)
  PROVE  IInv'
  <1>1. /\ ~crashed /\ count[r] = 0 /\ r \notin dying
        /\ c \in Resources => traits = "ScopedTypeRef" /\ count[c] > 0
        /\ count' = [s \in Resources |-> count[s] + (IF s \in {r, c} THEN 1 ELSE 0)]
        /\ child' = [child EXCEPT ![r] = c]
        /\ raw' = [raw EXCEPT ![r] = 1]
        /\ UNCHANGED <<traits, dying, held, call, crashed>>
        /\ TypeOK /\ Sound /\ Balanced
    BY DEF Create, IInv
  <1>2. /\ count \in [Resources -> Nat] /\ raw \in [Resources -> 0 .. MaxRaw]
        /\ child \in [Resources -> Values] /\ dying \subseteq Resources
        /\ MaxRaw \in Nat \ {0}
    BY <1>1, OwnershipAssumption DEF TypeOK
  <1>3. /\ count' \in [Resources -> Nat] /\ raw' \in [Resources -> 0 .. MaxRaw]
        /\ child' \in [Resources -> Values]
    BY <1>1, <1>2
  <1>4. ~Counted => \A s \in Resources : count'[s] <= 1
    BY <1>1, <1>2 DEF TypeOK, Counted
  <1>5. TypeOK'
    BY <1>1, <1>3, <1>4 DEF TypeOK, Counted
  <1>6. Sound'
    BY <1>1, <1>2 DEF Sound, At
  <1>7. ASSUME NEW s \in Resources
        PROVE  count'[s] = raw'[s] + Cardinality(OwnersOf(s)') + Cardinality(Pending(s)')
                             + Cardinality(Parents(s)')
    <2>1. OwnersOf(s)' = OwnersOf(s) /\ Pending(s)' = Pending(s)
      BY <1>1 DEF OwnersOf, Pending, At
    <2>2. \A q \in Resources \ {r} :
            (child'[q] = s /\ (count'[q] > 0 \/ q \in dying'))
              <=> (child[q] = s /\ (count[q] > 0 \/ q \in dying))
      BY <1>1, <1>2
    <2>3. r \notin Parents(s)
      BY <1>1, <1>2 DEF Parents
    <2>4. r \in Parents(s)' <=> s = c
      BY <1>1, <1>2 DEF Parents
    <2>5. Parents(s)' = IF s = c THEN Parents(s) \cup {r} ELSE Parents(s)
      BY <2>2, <2>3, <2>4 DEF Parents
    <2>6. count[s] = raw[s] + Cardinality(OwnersOf(s)) + Cardinality(Pending(s))
                       + Cardinality(Parents(s))
      BY <1>1 DEF Balanced
    <2>7. s = c => Cardinality(Parents(s)') = Cardinality(Parents(s)) + 1
      BY <2>3, <2>5, HoldersFinite, Sizes
    <2>8. s # c => Cardinality(Parents(s)') = Cardinality(Parents(s))
      BY <2>5
    <2>9. raw[s] \in Nat /\ count[s] \in Nat
      BY <1>2
    <2>10. CASE s = r
      <3>1. s # c /\ count'[s] = 1 /\ raw'[s] = 1 /\ count[s] = 0
        BY <1>1, <1>2, <2>10
      <3> QED
        BY <2>1, <2>6, <2>8, <2>9, <3>1, HolderCounts
    <2>11. CASE s # r
      <3>1. raw'[s] = raw[s] /\ count'[s] = count[s] + (IF s = c THEN 1 ELSE 0)
        BY <1>1, <1>2, <2>11
      <3> QED
        BY <2>1, <2>6, <2>7, <2>8, <2>9, <3>1, HolderCounts
    <2> QED
      BY <2>10, <2>11
  <1>8. Balanced'
    BY <1>7 DEF Balanced
  <1> QED
    BY <1>5, <1>6, <1>8 DEF IInv

LEMMA DuplicateKeeps ==
  ASSUME IInv, NEW r \in Resources, Duplicate(r)
  PROVE  IInv'
  <1>1. /\ ~crashed /\ Counted /\ count[r] > 0 /\ raw[r] < MaxRaw
        /\ count' = [count EXCEPT ![r] = @ + 1] /\ raw' = [raw EXCEPT ![r] = @ + 1]
        /\ UNCHANGED <<traits, child, dying, held, call, crashed>>
        /\ TypeOK /\ Sound /\ Balanced
    BY DEF Duplicate, IInv
  <1>2. /\ count \in [Resources -> Nat] /\ raw \in [Resources -> 0 .. MaxRaw] /\ MaxRaw \in Nat
        /\ dying \subseteq Resources
    BY <1>1, OwnershipAssumption DEF TypeOK
  <1>3. count' \in [Resources -> Nat] /\ raw' \in [Resources -> 0 .. MaxRaw]
    BY <1>1, <1>2
  <1>4. TypeOK'
    BY <1>1, <1>3 DEF TypeOK, Counted
  <1>5. Sound'
    BY <1>1, <1>2 DEF Sound, At
  <1>6. ASSUME NEW s \in Resources
        PROVE  count'[s] = raw'[s] + Cardinality(OwnersOf(s)') + Cardinality(Pending(s)')
                             + Cardinality(Parents(s)')
    <2>1. OwnersOf(s)' = OwnersOf(s) /\ Pending(s)' = Pending(s)
      BY <1>1 DEF OwnersOf, Pending, At
    <2>2. Parents(s)' = Parents(s)
      BY <1>1, <1>2 DEF Parents
    <2>3. count[s] = raw[s] + Cardinality(OwnersOf(s)) + Cardinality(Pending(s))
                       + Cardinality(Parents(s))
      BY <1>1 DEF Balanced
    <2>4. /\ raw[s] \in Nat /\ count[s] \in Nat
          /\ raw'[s] = raw[s] + (IF s = r THEN 1 ELSE 0)
          /\ count'[s] = count[s] + (IF s = r THEN 1 ELSE 0)
      BY <1>1, <1>2
    <2> QED
      BY <2>1, <2>2, <2>3, <2>4, HolderCounts
  <1>7. Balanced'
    BY <1>6 DEF Balanced
  <1> QED
    BY <1>4, <1>5, <1>7 DEF IInv

LEMMA RawFreeKeeps ==
  ASSUME IInv, NEW r \in Resources, RawFree(r)
  PROVE  IInv'
  <1>1. /\ ~crashed /\ raw[r] > 0 /\ raw' = [raw EXCEPT ![r] = @ - 1] /\ Lose(r)
        /\ UNCHANGED <<traits, held, call, crashed>>
        /\ TypeOK /\ Sound /\ Balanced
    BY DEF RawFree, IInv
  <1>2. /\ count \in [Resources -> Nat] /\ raw \in [Resources -> 0 .. MaxRaw] /\ MaxRaw \in Nat
        /\ count[r] > 0
    BY <1>1, HeldExists, OwnershipAssumption DEF TypeOK
  <1>3. /\ count' \in [Resources -> Nat]
        /\ \A s \in Resources : count'[s] = count[s] - (IF s = r THEN 1 ELSE 0)
        /\ dying' \subseteq Resources
        /\ \A s \in dying' : child'[s] \in Resources /\ count'[s] = 0
        /\ child' = child
        /\ \A s \in Resources : Parents(s)' = Parents(s)
        /\ ~Counted => \A s \in Resources : count'[s] <= 1
    BY <1>1, <1>2, LoseFacts
  <1>4. raw' \in [Resources -> 0 .. MaxRaw]
    BY <1>1, <1>2
  <1>5. TypeOK'
    BY <1>1, <1>3, <1>4 DEF TypeOK, Counted
  <1>6. Sound'
    BY <1>1, <1>3 DEF Sound, At
  <1>7. ASSUME NEW s \in Resources
        PROVE  count'[s] = raw'[s] + Cardinality(OwnersOf(s)') + Cardinality(Pending(s)')
                             + Cardinality(Parents(s)')
    <2>1. OwnersOf(s)' = OwnersOf(s) /\ Pending(s)' = Pending(s)
      BY <1>1 DEF OwnersOf, Pending, At
    <2>2. Parents(s)' = Parents(s)
      BY <1>3
    <2>3. count[s] = raw[s] + Cardinality(OwnersOf(s)) + Cardinality(Pending(s))
                       + Cardinality(Parents(s))
      BY <1>1 DEF Balanced
    <2>4. /\ raw[s] \in Nat /\ count[s] \in Nat
          /\ raw'[s] = raw[s] - (IF s = r THEN 1 ELSE 0)
          /\ count'[s] = count[s] - (IF s = r THEN 1 ELSE 0)
      BY <1>1, <1>2, <1>3
    <2> QED
      BY <2>1, <2>2, <2>3, <2>4, HolderCounts
  <1>8. Balanced'
    BY <1>7 DEF Balanced
  <1> QED
    BY <1>5, <1>6, <1>8 DEF IInv

LEMMA LosesChildKeeps ==
  ASSUME IInv, NEW r \in Resources, LosesChild(r)
  PROVE  IInv'
  <1> DEFINE c == child[r]
  <1>1. /\ ~crashed /\ r \in dying
        /\ count' = [count EXCEPT ![c] = @ - 1]
        /\ dying' = (dying \ {r}) \cup {q \in {c} : count[q] = 1 /\ child[q] # InvalidValue}
        /\ child' = [child EXCEPT ![r] = InvalidValue]
        /\ UNCHANGED <<traits, raw, held, call, crashed>>
        /\ TypeOK /\ Sound /\ Balanced
    BY DEF LosesChild, IInv
  <1>2. /\ count \in [Resources -> Nat] /\ raw \in [Resources -> Nat]
        /\ child \in [Resources -> Values] /\ dying \subseteq Resources
    BY <1>1, OwnershipAssumption DEF TypeOK
  <1>3. c \in Resources /\ count[r] = 0
    BY <1>1 DEF Sound
  <1>4. r \in Parents(c)
    BY <1>1 DEF Parents
  <1>5. count[c] > 0
    BY <1>1, <1>3, <1>4, HeldExists
  <1> HIDE DEF c
  <1>6. c # r
    BY <1>3, <1>5
  <1>7. \A s \in Resources : count'[s] = count[s] - (IF s = c THEN 1 ELSE 0)
    BY <1>1, <1>2
  <1>8. /\ count' \in [Resources -> Nat] /\ child' \in [Resources -> Values]
        /\ dying' \subseteq Resources
    BY <1>1, <1>2, <1>3, <1>5 DEF Values
  <1>9. ~Counted => \A s \in Resources : count'[s] <= 1
    BY <1>1, <1>2, <1>7 DEF TypeOK
  <1>10. TypeOK'
    BY <1>1, <1>8, <1>9 DEF TypeOK, Counted
  <1>11. ASSUME NEW s \in dying'
         PROVE  child'[s] \in Resources /\ count'[s] = 0
    <2>1. CASE s \in dying /\ s # r
      <3>1. child[s] \in Resources /\ count[s] = 0 /\ s \in Resources
        BY <1>1, <1>2, <2>1 DEF Sound
      <3> QED
        BY <1>1, <1>2, <1>5, <1>7, <2>1, <3>1
    <2>2. CASE s = c /\ count[c] = 1 /\ child[c] # InvalidValue
      BY <1>1, <1>2, <1>3, <1>6, <1>7, <2>2 DEF Values
    <2> QED
      BY <1>1, <1>11, <2>1, <2>2
  <1>12. Sound'
    BY <1>1, <1>11 DEF Sound, At
  <1>13. ASSUME NEW s \in Resources
         PROVE  count'[s] = raw'[s] + Cardinality(OwnersOf(s)') + Cardinality(Pending(s)')
                             + Cardinality(Parents(s)')
    <2>1. OwnersOf(s)' = OwnersOf(s) /\ Pending(s)' = Pending(s)
      BY <1>1 DEF OwnersOf, Pending, At
    <2>2. ASSUME NEW q \in Resources, q # r
          PROVE  (child'[q] = s /\ (count'[q] > 0 \/ q \in dying'))
                   <=> (child[q] = s /\ (count[q] > 0 \/ q \in dying))
      <3>1. child'[q] = child[q]
        BY <1>1, <1>2, <2>2
      <3>2. CASE q # c
        BY <1>1, <1>2, <1>7, <2>2, <3>1, <3>2
      <3>3. CASE q = c
        BY <1>1, <1>2, <1>5, <1>7, <2>2, <3>1, <3>3, OwnershipAssumption
      <3> QED
        BY <3>2, <3>3
    <2>3. r \notin Parents(s)'
      BY <1>1, <1>2, OwnershipAssumption DEF Parents
    <2>4. r \in Parents(s) <=> s = c
      BY <1>1, <1>2 DEF Parents, c
    <2>5. Parents(s)' = Parents(s) \ {r}
      BY <2>2, <2>3 DEF Parents
    <2>6. Cardinality(Parents(s)') = Cardinality(Parents(s)) - (IF s = c THEN 1 ELSE 0)
      <3>1. CASE s = c
        BY <2>4, <2>5, <3>1, HoldersFinite, Sizes
      <3>2. CASE s # c
        <4>1. Parents(s)' = Parents(s)
          BY <2>4, <2>5, <3>2
        <4> QED
          BY <3>2, <4>1, HolderCounts
      <3> QED
        BY <3>1, <3>2
    <2>7. count[s] = raw[s] + Cardinality(OwnersOf(s)) + Cardinality(Pending(s))
                       + Cardinality(Parents(s))
      BY <1>1 DEF Balanced
    <2>8. /\ raw[s] \in Nat /\ count[s] \in Nat /\ raw'[s] = raw[s]
          /\ count'[s] = count[s] - (IF s = c THEN 1 ELSE 0)
      BY <1>1, <1>2, <1>7
    <2> QED
      BY <2>1, <2>6, <2>7, <2>8, HolderCounts
  <1>14. Balanced'
    BY <1>13 DEF Balanced
  <1> QED
    BY <1>10, <1>12, <1>14 DEF IInv

-----------------------------------------------------------------------------
(* An owner that comes to hold a value, and had no reference before. *)
LEMMA OwnerGains ==
  ASSUME NEW s \in Resources, NEW o \in Owners, NEW value,
         o \notin OwnersOf(s),
         OwnersOf(s)' = IF s = value THEN OwnersOf(s) \cup {o} ELSE OwnersOf(s)
  PROVE  Cardinality(OwnersOf(s)') = Cardinality(OwnersOf(s)) + (IF s = value THEN 1 ELSE 0)
  <1>1. CASE s = value
    BY <1>1, HoldersFinite, Sizes
  <1>2. CASE s # value
    BY <1>2, HolderCounts
  <1> QED
    BY <1>1, <1>2

(* One owner in the place of another. *)
LEMMA Exchanged ==
  ASSUME NEW s \in Resources, NEW o, NEW p, o \in OwnersOf(s), p \notin OwnersOf(s)
  PROVE  Cardinality((OwnersOf(s) \ {o}) \cup {p}) = Cardinality(OwnersOf(s))
  <1>1. IsFiniteSet(OwnersOf(s)) /\ IsFiniteSet(OwnersOf(s) \ {o}) /\ p \notin OwnersOf(s) \ {o}
    BY HoldersFinite, FS_RemoveElement
  <1>2. Cardinality(OwnersOf(s) \ {o}) = Cardinality(OwnersOf(s)) - 1
    BY <1>1, Sizes
  <1>3. Cardinality((OwnersOf(s) \ {o}) \cup {p}) = Cardinality(OwnersOf(s) \ {o}) + 1
    BY <1>1, Sizes
  <1> QED
    BY <1>2, <1>3, HolderCounts

(* Counts that change by what is passed keep alive what was alive. *)
LEMMA AliveUnchanged ==
  ASSUME UNCHANGED <<child, dying>>,
         \A r \in Resources : count'[r] > 0 <=> count[r] > 0
  PROVE  \A s \in Resources : Parents(s)' = Parents(s)
  BY DEF Parents

(* The types of what an owner keeps. *)
CallRecords == [at : {"none", "idle", "reset", "destroy"}, value : Values, freed : BOOLEAN]

LEMMA OwnerTypes ==
  ASSUME TypeOK
  PROVE  /\ held \in [Owners -> Values] /\ call \in [Owners -> CallRecords]
         /\ count \in [Resources -> Nat] /\ raw \in [Resources -> 0 .. MaxRaw]
         /\ MaxRaw \in Nat /\ dying \subseteq Resources
  BY OwnershipAssumption DEF TypeOK, CallRecords

LEMMA NoCallFacts ==
  /\ NoCall \in CallRecords
  /\ NoCall.at = "idle" /\ NoCall.value = InvalidValue /\ ~NoCall.freed
  BY DEF NoCall, Values, CallRecords

LEMMA ConstructKeeps ==
  ASSUME IInv, NEW o \in Owners, NEW value \in Values, NEW policy \in {"ASSUME", "RETAIN"},
         Construct(o, value, policy)
  PROVE  IInv'
  <1>1. /\ ~crashed /\ At(o) = "none" /\ Passable(value, policy)
        /\ count' = Retained(value, policy) /\ raw' = Handed(value, policy)
        /\ held' = [held EXCEPT ![o] = value]
        /\ call' = [call EXCEPT ![o] = NoCall]
        /\ UNCHANGED <<traits, child, dying, crashed>>
        /\ TypeOK /\ Sound /\ Balanced
    BY DEF Construct, Unborn, At, IInv
  <1>2. /\ count' \in [Resources -> Nat] /\ raw' \in [Resources -> 0 .. MaxRaw]
        /\ \A r \in Resources :
             /\ count'[r] - raw'[r] = count[r] - raw[r] + (IF r = value THEN 1 ELSE 0)
             /\ count'[r] > 0 <=> count[r] > 0
        /\ ~Counted => count' = count
    BY <1>1, PassedFacts
  <1>3. /\ held \in [Owners -> Values] /\ dying \subseteq Resources
        /\ count \in [Resources -> Nat] /\ raw \in [Resources -> 0 .. MaxRaw] /\ MaxRaw \in Nat
        /\ call \in [Owners -> CallRecords]
    BY <1>1, OwnerTypes
  <1>4. /\ NoCall \in CallRecords
        /\ NoCall.at = "idle" /\ NoCall.value = InvalidValue /\ ~NoCall.freed
    BY NoCallFacts
  <1>5. /\ held' \in [Owners -> Values] /\ call' \in [Owners -> CallRecords]
        /\ call'[o] = NoCall
        /\ \A q \in Owners \ {o} : call'[q] = call[q] /\ held'[q] = held[q]
        /\ held'[o] = value
    BY <1>1, <1>3, <1>4
  <1>6. TypeOK'
    BY <1>1, <1>2, <1>5 DEF TypeOK, Counted, CallRecords
  <1>7. Sound'
    <2>1. \A q \in Owners :
            /\ At(q)' \in {"none", "idle", "destroy"} => call'[q].value = InvalidValue
            /\ At(q)' \in {"none", "idle"} => ~call'[q].freed
            /\ At(q)' \in {"reset", "destroy"} => held'[q] \in Resources
      BY <1>1, <1>4, <1>5 DEF Sound, At
    <2>2. \A r \in dying' : child'[r] \in Resources /\ count'[r] = 0
      BY <1>1, <1>2, <1>3 DEF Sound
    <2> QED
      BY <2>1, <2>2 DEF Sound
  <1>8. ASSUME NEW s \in Resources
        PROVE  count'[s] = raw'[s] + Cardinality(OwnersOf(s)') + Cardinality(Pending(s)')
                             + Cardinality(Parents(s)')
    <2>1. o \notin OwnersOf(s)
      BY <1>1 DEF OwnersOf
    <2>2. OwnersOf(s)' = IF s = value THEN OwnersOf(s) \cup {o} ELSE OwnersOf(s)
      BY <1>1, <1>4, <1>5 DEF OwnersOf, At
    <2>3. Pending(s)' = Pending(s)
      BY <1>1, <1>4, <1>5 DEF Pending, At
    <2>4. Parents(s)' = Parents(s)
      BY <1>1, <1>2, AliveUnchanged
    <2>5. count[s] = raw[s] + Cardinality(OwnersOf(s)) + Cardinality(Pending(s))
                       + Cardinality(Parents(s))
      BY <1>1 DEF Balanced
    <2>6. /\ raw[s] \in Nat /\ count[s] \in Nat /\ raw'[s] \in Nat /\ count'[s] \in Nat
          /\ count'[s] - raw'[s] = count[s] - raw[s] + (IF s = value THEN 1 ELSE 0)
      BY <1>2, <1>3
    <2>7. Cardinality(OwnersOf(s)') = Cardinality(OwnersOf(s)) + (IF s = value THEN 1 ELSE 0)
      BY <2>1, <2>2, OwnerGains
    <2> QED
      BY <2>3, <2>4, <2>5, <2>6, <2>7, HolderCounts
  <1>9. Balanced'
    BY <1>8 DEF Balanced
  <1> QED
    BY <1>6, <1>7, <1>9 DEF IInv

LEMMA MoveConstructKeeps ==
  ASSUME IInv, NEW o \in Owners, NEW p \in Owners, MoveConstruct(o, p)
  PROVE  IInv'
  <1>1. /\ ~crashed /\ At(o) = "none" /\ At(p) = "idle" /\ o # p
        /\ held' = [Released(p) EXCEPT ![o] = held[p]]
        /\ call' = [call EXCEPT ![o] = NoCall]
        /\ UNCHANGED <<traits, count, child, dying, raw, crashed>>
        /\ TypeOK /\ Sound /\ Balanced
    BY DEF MoveConstruct, Unborn, Idle, At, IInv, resources
  <1>2. /\ held \in [Owners -> Values] /\ call \in [Owners -> CallRecords]
    BY <1>1, OwnerTypes
  <1>3. /\ held' \in [Owners -> Values] /\ call' \in [Owners -> CallRecords]
        /\ call'[o] = NoCall /\ held'[o] = held[p] /\ held'[p] = InvalidValue
        /\ \A q \in Owners \ {o} : call'[q] = call[q]
        /\ \A q \in Owners \ {o, p} : held'[q] = held[q]
    BY <1>1, <1>2, NoCallFacts DEF Released, Values
  <1>4. TypeOK'
    BY <1>1, <1>3 DEF TypeOK, Counted, CallRecords
  <1>5. Sound'
    <2>1. \A q \in Owners :
            /\ At(q)' \in {"none", "idle", "destroy"} => call'[q].value = InvalidValue
            /\ At(q)' \in {"none", "idle"} => ~call'[q].freed
            /\ At(q)' \in {"reset", "destroy"} => held'[q] \in Resources
      BY <1>1, <1>3, NoCallFacts DEF Sound, At
    <2> QED
      BY <1>1, <2>1 DEF Sound
  <1>6. ASSUME NEW s \in Resources
        PROVE  count'[s] = raw'[s] + Cardinality(OwnersOf(s)') + Cardinality(Pending(s)')
                             + Cardinality(Parents(s)')
    <2>1. o \notin OwnersOf(s) /\ (p \in OwnersOf(s) <=> held[p] = s)
      BY <1>1 DEF OwnersOf, Sound, At
    <2>2. Cardinality(OwnersOf(s)') = Cardinality(OwnersOf(s))
      <3>1. CASE held[p] = s
        <4>1. OwnersOf(s)' = (OwnersOf(s) \ {p}) \cup {o}
          BY <1>1, <1>3, <3>1, NoCallFacts, OwnershipAssumption DEF OwnersOf, At
        <4> QED
          BY <2>1, <3>1, <4>1, Exchanged
      <3>2. CASE held[p] # s
        <4>1. OwnersOf(s)' = OwnersOf(s)
          BY <1>1, <1>3, <2>1, <3>2, NoCallFacts, OwnershipAssumption DEF OwnersOf, At
        <4> QED
          BY <4>1
      <3> QED
        BY <3>1, <3>2
    <2>3. Pending(s)' = Pending(s)
      BY <1>1, <1>3, NoCallFacts DEF Pending, At
    <2>4. Parents(s)' = Parents(s)
      BY <1>1 DEF Parents
    <2>5. count[s] = raw[s] + Cardinality(OwnersOf(s)) + Cardinality(Pending(s))
                       + Cardinality(Parents(s))
      BY <1>1 DEF Balanced
    <2> QED
      BY <1>1, <2>2, <2>3, <2>4, <2>5
  <1>7. Balanced'
    BY <1>6 DEF Balanced
  <1> QED
    BY <1>4, <1>5, <1>7 DEF IInv

LEMMA SwapKeeps ==
  ASSUME IInv, NEW o \in Owners, NEW p \in Owners, Swap(o, p)
  PROVE  IInv'
  <1>1. /\ ~crashed /\ At(o) = "idle" /\ At(p) = "idle" /\ o # p
        /\ held' = [held EXCEPT ![o] = held[p], ![p] = held[o]]
        /\ UNCHANGED <<traits, count, child, dying, raw, call, crashed>>
        /\ TypeOK /\ Sound /\ Balanced
    BY DEF Swap, Idle, At, IInv, resources
  <1>2. held \in [Owners -> Values]
    BY <1>1, OwnerTypes
  <1>3. /\ held' \in [Owners -> Values] /\ held'[o] = held[p] /\ held'[p] = held[o]
        /\ \A q \in Owners \ {o, p} : held'[q] = held[q]
    BY <1>1, <1>2
  <1>4. TypeOK'
    BY <1>1, <1>3 DEF TypeOK, Counted
  <1>5. Sound'
    BY <1>1, <1>3 DEF Sound, At
  <1>6. ASSUME NEW s \in Resources
        PROVE  count'[s] = raw'[s] + Cardinality(OwnersOf(s)') + Cardinality(Pending(s)')
                             + Cardinality(Parents(s)')
    <2>1. (o \in OwnersOf(s) <=> held[o] = s) /\ (p \in OwnersOf(s) <=> held[p] = s)
      BY <1>1 DEF OwnersOf, Sound, At
    <2>2. Cardinality(OwnersOf(s)') = Cardinality(OwnersOf(s))
      <3>1. CASE held[o] = s /\ held[p] # s
        <4>1. OwnersOf(s)' = (OwnersOf(s) \ {o}) \cup {p}
          BY <1>1, <1>3, <3>1 DEF OwnersOf, Sound, At
        <4> QED
          BY <2>1, <3>1, <4>1, Exchanged
      <3>2. CASE held[o] # s /\ held[p] = s
        <4>1. OwnersOf(s)' = (OwnersOf(s) \ {p}) \cup {o}
          BY <1>1, <1>3, <3>2 DEF OwnersOf, Sound, At
        <4> QED
          BY <2>1, <3>2, <4>1, Exchanged
      <3>3. CASE held[o] = s <=> held[p] = s
        <4>1. OwnersOf(s)' = OwnersOf(s)
          BY <1>1, <1>3, <3>3 DEF OwnersOf, Sound, At
        <4> QED
          BY <4>1
      <3> QED
        BY <3>1, <3>2, <3>3
    <2>3. Pending(s)' = Pending(s) /\ Parents(s)' = Parents(s)
      BY <1>1 DEF Pending, Parents, At
    <2>4. count[s] = raw[s] + Cardinality(OwnersOf(s)) + Cardinality(Pending(s))
                       + Cardinality(Parents(s))
      BY <1>1 DEF Balanced
    <2> QED
      BY <1>1, <2>2, <2>3, <2>4
  <1>7. Balanced'
    BY <1>6 DEF Balanced
  <1> QED
    BY <1>4, <1>5, <1>7 DEF IInv

LEMMA ReleaseKeeps ==
  ASSUME IInv, NEW o \in Owners, Release(o)
  PROVE  IInv'
  <1>1. /\ ~crashed /\ At(o) = "idle" /\ held' = [held EXCEPT ![o] = InvalidValue]
        /\ UNCHANGED <<traits, count, child, dying, call, crashed>>
        /\ TypeOK /\ Sound /\ Balanced
    BY DEF Release, Released, Idle, At, IInv, resources
  <1>2. /\ held \in [Owners -> Values]
        /\ count \in [Resources -> Nat] /\ raw \in [Resources -> 0 .. MaxRaw] /\ MaxRaw \in Nat
    BY <1>1, OwnerTypes
  <1>3. /\ held' \in [Owners -> Values] /\ held'[o] = InvalidValue
        /\ \A q \in Owners \ {o} : held'[q] = held[q]
    BY <1>1, <1>2 DEF Values
  <1>4. /\ raw' \in [Resources -> 0 .. MaxRaw]
        /\ \A s \in Resources : raw'[s] = raw[s] + (IF s = held[o] THEN 1 ELSE 0)
    <2>1. CASE held[o] = InvalidValue /\ UNCHANGED raw
      BY <1>2, <2>1, OwnershipAssumption
    <2>2. CASE /\ held[o] # InvalidValue /\ raw[held[o]] < MaxRaw
               /\ raw' = [raw EXCEPT ![held[o]] = @ + 1]
      BY <1>2, <2>2 DEF Values
    <2> QED
      BY <2>1, <2>2 DEF Release
  <1>5. TypeOK'
    BY <1>1, <1>3, <1>4 DEF TypeOK, Counted
  <1>6. Sound'
    BY <1>1, <1>3 DEF Sound, At
  <1>7. ASSUME NEW s \in Resources
        PROVE  count'[s] = raw'[s] + Cardinality(OwnersOf(s)') + Cardinality(Pending(s)')
                             + Cardinality(Parents(s)')
    <2>1. o \in OwnersOf(s) <=> held[o] = s
      BY <1>1 DEF OwnersOf, Sound, At
    <2>2. OwnersOf(s)' = OwnersOf(s) \ {o}
      BY <1>1, <1>3, OwnershipAssumption DEF OwnersOf, At
    <2>3. Cardinality(OwnersOf(s)') = Cardinality(OwnersOf(s)) - (IF s = held[o] THEN 1 ELSE 0)
      <3>1. CASE held[o] = s
        BY <2>1, <2>2, <3>1, HoldersFinite, Sizes
      <3>2. CASE held[o] # s
        <4>1. OwnersOf(s)' = OwnersOf(s)
          BY <2>1, <2>2, <3>2
        <4> QED
          BY <3>2, <4>1, HolderCounts
      <3> QED
        BY <3>1, <3>2
    <2>4. Pending(s)' = Pending(s) /\ Parents(s)' = Parents(s)
      BY <1>1 DEF Pending, Parents, At
    <2>5. count[s] = raw[s] + Cardinality(OwnersOf(s)) + Cardinality(Pending(s))
                       + Cardinality(Parents(s))
      BY <1>1 DEF Balanced
    <2>6. /\ raw[s] \in Nat /\ count[s] \in Nat /\ count'[s] = count[s]
          /\ raw'[s] = raw[s] + (IF s = held[o] THEN 1 ELSE 0)
      BY <1>1, <1>2, <1>4
    <2> QED
      BY <2>3, <2>4, <2>5, <2>6, HolderCounts
  <1>8. Balanced'
    BY <1>7 DEF Balanced
  <1> QED
    BY <1>5, <1>6, <1>8 DEF IInv

LEMMA DestroyKeeps ==
  ASSUME IInv, NEW o \in Owners, Destroy(o)
  PROVE  IInv'
  <1> DEFINE at == IF held[o] = InvalidValue THEN "none" ELSE "destroy"
  <1>1. /\ ~crashed /\ At(o) = "idle" /\ call' = [call EXCEPT ![o].at = at]
        /\ UNCHANGED <<traits, count, child, dying, raw, held, crashed>>
        /\ TypeOK /\ Sound /\ Balanced
    BY DEF Destroy, Idle, At, IInv, resources
  <1>2. held \in [Owners -> Values] /\ call \in [Owners -> CallRecords]
    BY <1>1, OwnerTypes
  <1>3. /\ call' \in [Owners -> CallRecords]
        /\ call'[o].at = at /\ call'[o].value = call[o].value /\ call'[o].freed = call[o].freed
        /\ \A q \in Owners \ {o} : call'[q] = call[q]
    BY <1>1, <1>2 DEF CallRecords
  <1>4. TypeOK'
    BY <1>1, <1>3 DEF TypeOK, Counted, CallRecords
  <1>5. Sound'
    <2>1. \A q \in Owners :
            /\ At(q)' \in {"none", "idle", "destroy"} => call'[q].value = InvalidValue
            /\ At(q)' \in {"none", "idle"} => ~call'[q].freed
            /\ At(q)' \in {"reset", "destroy"} => held'[q] \in Resources
      BY <1>1, <1>2, <1>3 DEF Sound, At, Values
    <2> QED
      BY <1>1, <2>1 DEF Sound
  <1>6. ASSUME NEW s \in Resources
        PROVE  count'[s] = raw'[s] + Cardinality(OwnersOf(s)') + Cardinality(Pending(s)')
                             + Cardinality(Parents(s)')
    <2>1. OwnersOf(s)' = OwnersOf(s)
      BY <1>1, <1>3, OwnershipAssumption DEF OwnersOf, At
    <2>2. Pending(s)' = Pending(s)
      BY <1>1, <1>3 DEF Pending, At
    <2>3. Parents(s)' = Parents(s)
      BY <1>1 DEF Parents
    <2>4. count[s] = raw[s] + Cardinality(OwnersOf(s)) + Cardinality(Pending(s))
                       + Cardinality(Parents(s))
      BY <1>1 DEF Balanced
    <2> QED
      BY <1>1, <2>1, <2>2, <2>3, <2>4
  <1>7. Balanced'
    BY <1>6 DEF Balanced
  <1> QED
    BY <1>4, <1>5, <1>7 DEF IInv

-----------------------------------------------------------------------------
(* The owners of a resource where they hold h. *)
OwnersWith(h, r) == {o \in Owners : h[o] = r /\ At(o) # "none" /\ ~call[o].freed}

(* Before its Free a reset has made one more holder, of its new value. *)
LEMMA StartResetFacts ==
  ASSUME TypeOK, Sound, NEW o \in Owners, At(o) = "idle", NEW value \in Values,
         NEW h \in [Owners -> Values],
         \A q \in Owners : At(q) \in {"reset", "destroy"} => h[q] = held[q],
         StartReset(o, value, h), ~crashed, ~crashed'
  PROVE  /\ held' \in [Owners -> Values] /\ call' \in [Owners -> CallRecords]
         /\ \A q \in Owners :
            /\ At(q)' \in {"none", "idle", "destroy"} => call'[q].value = InvalidValue
            /\ At(q)' \in {"none", "idle"} => ~call'[q].freed
            /\ At(q)' \in {"reset", "destroy"} => held'[q] \in Resources
         /\ \A s \in Resources :
              Cardinality(OwnersOf(s)') + Cardinality(Pending(s)')
                = Cardinality(OwnersWith(h, s)) + Cardinality(Pending(s))
                    + (IF s = value THEN 1 ELSE 0)
  <1>1. call \in [Owners -> CallRecords]
    BY OwnerTypes
  <1>2. ASSUME NEW s \in Resources
        PROVE  /\ IsFiniteSet(OwnersWith(h, s)) /\ Cardinality(OwnersWith(h, s)) \in Nat
               /\ IsFiniteSet(Pending(s)) /\ Cardinality(Pending(s)) \in Nat
    <2>1. IsFiniteSet(OwnersWith(h, s))
      BY OwnershipAssumption, FS_Subset DEF OwnersWith
    <2> QED
      BY <2>1, HoldersFinite, FS_CardinalityType
  <1>3. CASE /\ h[o] # InvalidValue
             /\ call' = [call EXCEPT ![o] = [at |-> "reset", value |-> value, freed |-> FALSE]]
             /\ held' = h
    <2>1. [at |-> "reset", value |-> value, freed |-> FALSE] \in CallRecords
      BY DEF CallRecords
    <2>2. /\ call' \in [Owners -> CallRecords]
          /\ call'[o] = [at |-> "reset", value |-> value, freed |-> FALSE]
          /\ \A q \in Owners \ {o} : call'[q] = call[q]
      BY <1>1, <1>3, <2>1
    <2>3. \A q \in Owners :
            /\ At(q)' \in {"none", "idle", "destroy"} => call'[q].value = InvalidValue
            /\ At(q)' \in {"none", "idle"} => ~call'[q].freed
            /\ At(q)' \in {"reset", "destroy"} => held'[q] \in Resources
      BY <1>3, <2>2 DEF Sound, At, Values
    <2>4. ASSUME NEW s \in Resources
          PROVE  Cardinality(OwnersOf(s)') + Cardinality(Pending(s)')
                   = Cardinality(OwnersWith(h, s)) + Cardinality(Pending(s))
                       + (IF s = value THEN 1 ELSE 0)
      <3>1. OwnersOf(s)' = OwnersWith(h, s)
        BY <1>3, <2>2 DEF OwnersOf, OwnersWith, Sound, At
      <3>2. o \notin Pending(s)
        BY DEF Pending
      <3>3. Pending(s)' = IF s = value THEN Pending(s) \cup {o} ELSE Pending(s)
        BY <2>2, <3>2 DEF Pending, At
      <3>4. Cardinality(Pending(s)') = Cardinality(Pending(s)) + (IF s = value THEN 1 ELSE 0)
        <4>1. CASE s = value
          BY <1>2, <3>2, <3>3, <4>1, Sizes
        <4>2. CASE s # value
          BY <1>2, <3>3, <4>2
        <4> QED
          BY <4>1, <4>2
      <3> QED
        BY <1>2, <3>1, <3>4
    <2> QED
      BY <1>3, <2>2, <2>3, <2>4
  <1>4. CASE h[o] = InvalidValue /\ held' = [h EXCEPT ![o] = value] /\ call' = call
    <2>1. /\ held' \in [Owners -> Values] /\ held'[o] = value
          /\ \A q \in Owners \ {o} : held'[q] = h[q]
      BY <1>4
    <2>2. \A q \in Owners :
            /\ At(q)' \in {"none", "idle", "destroy"} => call'[q].value = InvalidValue
            /\ At(q)' \in {"none", "idle"} => ~call'[q].freed
            /\ At(q)' \in {"reset", "destroy"} => held'[q] \in Resources
      BY <1>4, <2>1 DEF Sound, At
    <2>3. ASSUME NEW s \in Resources
          PROVE  Cardinality(OwnersOf(s)') + Cardinality(Pending(s)')
                   = Cardinality(OwnersWith(h, s)) + Cardinality(Pending(s))
                       + (IF s = value THEN 1 ELSE 0)
      <3>1. Pending(s)' = Pending(s)
        BY <1>4 DEF Pending, At
      <3>2. o \notin OwnersWith(h, s)
        BY <1>4, OwnershipAssumption DEF OwnersWith
      <3>3. OwnersOf(s)' = IF s = value THEN OwnersWith(h, s) \cup {o} ELSE OwnersWith(h, s)
        BY <1>4, <2>1, <3>2 DEF OwnersOf, OwnersWith, Sound, At
      <3>4. Cardinality(OwnersOf(s)') = Cardinality(OwnersWith(h, s)) + (IF s = value THEN 1 ELSE 0)
        <4>1. CASE s = value
          BY <1>2, <3>2, <3>3, <4>1, Sizes
        <4>2. CASE s # value
          BY <1>2, <3>3, <4>2
        <4> QED
          BY <4>1, <4>2
      <3> QED
        BY <1>2, <3>1, <3>4
    <2> QED
      BY <1>1, <1>4, <2>1, <2>2, <2>3
  <1> QED
    BY <1>3, <1>4 DEF StartReset

(* A reset that aborts only has to keep the types. *)
LEMMA StartResetTypes ==
  ASSUME TypeOK, NEW o \in Owners, NEW value \in Values, NEW h \in [Owners -> Values],
         StartReset(o, value, h), ~crashed
  PROVE  /\ held' \in [Owners -> Values] /\ call' \in [Owners -> CallRecords]
         /\ crashed' \in BOOLEAN
  <1>1. call \in [Owners -> CallRecords] /\ crashed \in BOOLEAN
    BY OwnerTypes DEF TypeOK
  <1>2. [at |-> "reset", value |-> value, freed |-> FALSE] \in CallRecords
    BY DEF CallRecords
  <1>3. CASE crashed' = TRUE /\ held' = h /\ UNCHANGED call
    BY <1>1, <1>3
  <1>4. CASE /\ call' = [call EXCEPT ![o] = [at |-> "reset", value |-> value, freed |-> FALSE]]
             /\ held' = h /\ UNCHANGED crashed
    BY <1>1, <1>2, <1>4
  <1>5. CASE held' = [h EXCEPT ![o] = value] /\ UNCHANGED <<call, crashed>>
    BY <1>1, <1>5
  <1> QED
    BY <1>3, <1>4, <1>5 DEF StartReset

LEMMA ResetKeeps ==
  ASSUME IInv, NEW o \in Owners, NEW value \in Values, NEW policy \in {"ASSUME", "RETAIN"},
         Reset(o, value, policy)
  PROVE  IInv'
  <1>1. /\ ~crashed /\ At(o) = "idle" /\ Passable(value, policy)
        /\ count' = Retained(value, policy) /\ raw' = Handed(value, policy)
        /\ StartReset(o, value, held)
        /\ UNCHANGED <<traits, child, dying>>
        /\ TypeOK /\ Sound /\ Balanced
    BY DEF Reset, Idle, At, IInv
  <1>2. /\ count' \in [Resources -> Nat] /\ raw' \in [Resources -> 0 .. MaxRaw]
        /\ \A r \in Resources :
             /\ count'[r] - raw'[r] = count[r] - raw[r] + (IF r = value THEN 1 ELSE 0)
             /\ count'[r] > 0 <=> count[r] > 0
        /\ ~Counted => count' = count
    BY <1>1, PassedFacts
  <1>3. /\ held \in [Owners -> Values] /\ dying \subseteq Resources
        /\ count \in [Resources -> Nat] /\ raw \in [Resources -> 0 .. MaxRaw] /\ MaxRaw \in Nat
    BY <1>1, OwnerTypes
  <1>4. TypeOK'
    <2>1. /\ held' \in [Owners -> Values] /\ call' \in [Owners -> CallRecords]
          /\ crashed' \in BOOLEAN
      BY <1>1, <1>3, StartResetTypes
    <2> QED
      BY <1>1, <1>2, <2>1 DEF TypeOK, Counted, CallRecords
  <1>5. ASSUME ~crashed'
        PROVE  Sound' /\ Balanced'
    <2>1. /\ \A q \in Owners :
            /\ At(q)' \in {"none", "idle", "destroy"} => call'[q].value = InvalidValue
            /\ At(q)' \in {"none", "idle"} => ~call'[q].freed
            /\ At(q)' \in {"reset", "destroy"} => held'[q] \in Resources
          /\ \A s \in Resources :
               Cardinality(OwnersOf(s)') + Cardinality(Pending(s)')
                 = Cardinality(OwnersWith(held, s)) + Cardinality(Pending(s))
                     + (IF s = value THEN 1 ELSE 0)
      BY <1>1, <1>3, <1>5, StartResetFacts
    <2>2. \A r \in dying' : child'[r] \in Resources /\ count'[r] = 0
      BY <1>1, <1>2, <1>3 DEF Sound
    <2>3. Sound'
      BY <2>1, <2>2 DEF Sound
    <2>4. ASSUME NEW s \in Resources
          PROVE  count'[s] = raw'[s] + Cardinality(OwnersOf(s)') + Cardinality(Pending(s)')
                             + Cardinality(Parents(s)')
      <3>1. OwnersWith(held, s) = OwnersOf(s)
        BY DEF OwnersWith, OwnersOf
      <3>2. Parents(s)' = Parents(s)
        BY <1>1, <1>2, AliveUnchanged
      <3>3. count[s] = raw[s] + Cardinality(OwnersOf(s)) + Cardinality(Pending(s))
                       + Cardinality(Parents(s))
        BY <1>1 DEF Balanced
      <3>4. /\ raw[s] \in Nat /\ count[s] \in Nat /\ raw'[s] \in Nat /\ count'[s] \in Nat
            /\ count'[s] - raw'[s] = count[s] - raw[s] + (IF s = value THEN 1 ELSE 0)
        BY <1>2, <1>3
      <3> QED
        BY <2>1, <3>1, <3>2, <3>3, <3>4, HolderCounts, HolderCountsNext
    <2> QED
      BY <2>3, <2>4 DEF Balanced
  <1> QED
    BY <1>4, <1>5 DEF IInv

LEMMA MoveAssignKeeps ==
  ASSUME IInv, NEW o \in Owners, NEW p \in Owners, MoveAssign(o, p)
  PROVE  IInv'
  <1> DEFINE h == Released(p)
             value == held[p]
  <1>1. /\ ~crashed /\ At(o) = "idle" /\ At(p) = "idle"
        /\ StartReset(o, value, h)
        /\ UNCHANGED <<traits, count, child, dying, raw>>
        /\ TypeOK /\ Sound /\ Balanced
    BY DEF MoveAssign, Idle, At, IInv, resources
  <1>2. /\ held \in [Owners -> Values]
        /\ count \in [Resources -> Nat] /\ raw \in [Resources -> 0 .. MaxRaw] /\ MaxRaw \in Nat
    BY <1>1, OwnerTypes
  <1>3. /\ h \in [Owners -> Values] /\ h[p] = InvalidValue /\ value \in Values
        /\ \A q \in Owners \ {p} : h[q] = held[q]
    BY <1>2 DEF Released, Values
  <1> HIDE DEF h
  <1>4. TypeOK'
    <2>1. /\ held' \in [Owners -> Values] /\ call' \in [Owners -> CallRecords]
          /\ crashed' \in BOOLEAN
      BY <1>1, <1>3, StartResetTypes
    <2> QED
      BY <1>1, <2>1 DEF TypeOK, Counted, CallRecords
  <1>5. ASSUME ~crashed'
        PROVE  Sound' /\ Balanced'
    <2>1. \A q \in Owners : At(q) \in {"reset", "destroy"} => h[q] = held[q]
      BY <1>1, <1>3
    <2>2. /\ \A q \in Owners :
            /\ At(q)' \in {"none", "idle", "destroy"} => call'[q].value = InvalidValue
            /\ At(q)' \in {"none", "idle"} => ~call'[q].freed
            /\ At(q)' \in {"reset", "destroy"} => held'[q] \in Resources
          /\ \A s \in Resources :
               Cardinality(OwnersOf(s)') + Cardinality(Pending(s)')
                 = Cardinality(OwnersWith(h, s)) + Cardinality(Pending(s))
                     + (IF s = value THEN 1 ELSE 0)
      BY <1>1, <1>3, <1>5, <2>1, StartResetFacts
    <2>3. Sound'
      BY <1>1, <2>2 DEF Sound
    <2>4. ASSUME NEW s \in Resources
          PROVE  count'[s] = raw'[s] + Cardinality(OwnersOf(s)') + Cardinality(Pending(s)')
                             + Cardinality(Parents(s)')
      <3>1. p \in OwnersOf(s) <=> held[p] = s
        BY <1>1 DEF OwnersOf, Sound, At
      <3>2. OwnersWith(h, s) = OwnersOf(s) \ {p}
        BY <1>3, OwnershipAssumption DEF OwnersWith, OwnersOf
      <3>3. Cardinality(OwnersWith(h, s)) = Cardinality(OwnersOf(s)) - (IF s = value THEN 1 ELSE 0)
        <4>1. CASE s = value
          BY <3>1, <3>2, <4>1, HoldersFinite, Sizes
        <4>2. CASE s # value
          <5>1. OwnersWith(h, s) = OwnersOf(s)
            BY <3>1, <3>2, <4>2
          <5> QED
            BY <4>2, <5>1, HolderCounts
        <4> QED
          BY <4>1, <4>2
      <3>4. Parents(s)' = Parents(s)
        BY <1>1 DEF Parents
      <3>5. count[s] = raw[s] + Cardinality(OwnersOf(s)) + Cardinality(Pending(s))
                       + Cardinality(Parents(s))
        BY <1>1 DEF Balanced
      <3>6. raw[s] \in Nat /\ count[s] \in Nat /\ raw'[s] = raw[s] /\ count'[s] = count[s]
        BY <1>1, <1>2
      <3> QED
        BY <2>2, <3>3, <3>4, <3>5, <3>6, HolderCounts, HolderCountsNext
    <2> QED
      BY <2>3, <2>4 DEF Balanced
  <1> QED
    BY <1>4, <1>5 DEF IInv

LEMMA ResetToItselfKeeps ==
  ASSUME IInv, NEW o \in Owners, ResetToItself(o)
  PROVE  IInv'
  <1>1. /\ ~crashed /\ Generic /\ held[o] # InvalidValue /\ StartReset(o, held[o], held)
        /\ UNCHANGED <<traits, count, child, dying, raw>>
        /\ TypeOK
    BY DEF ResetToItself, Idle, IInv, resources
  <1>2. held \in [Owners -> Values]
    BY <1>1, OwnerTypes
  <1>3. /\ held' \in [Owners -> Values] /\ call' \in [Owners -> CallRecords]
        /\ crashed' \in BOOLEAN
    BY <1>1, <1>2, StartResetTypes
  <1>4. crashed'
    BY <1>1 DEF StartReset
  <1>5. TypeOK'
    BY <1>1, <1>3 DEF TypeOK, Counted, CallRecords
  <1> QED
    BY <1>4, <1>5 DEF IInv

LEMMA InitializeIntoKeeps ==
  ASSUME IInv, NEW o \in Owners, NEW value \in Values, InitializeInto(o, value)
  PROVE  IInv'
  <1>1. /\ ~crashed /\ At(o) = "idle" /\ Passable(value, "ASSUME")
        /\ UNCHANGED <<traits, count, child, dying, call>>
        /\ TypeOK /\ Sound /\ Balanced
    BY DEF InitializeInto, Idle, At, IInv, resources
  <1>2. /\ held \in [Owners -> Values]
        /\ count \in [Resources -> Nat] /\ raw \in [Resources -> 0 .. MaxRaw] /\ MaxRaw \in Nat
    BY <1>1, OwnerTypes
  <1>3. CASE crashed' = TRUE /\ UNCHANGED <<raw, held>>
    <2>1. TypeOK'
      BY <1>1, <1>3 DEF TypeOK, Counted
    <2> QED
      BY <1>3, <2>1 DEF IInv
  <1>4. CASE /\ held[o] = InvalidValue /\ held' = [held EXCEPT ![o] = value]
             /\ raw' = Handed(value, "ASSUME") /\ UNCHANGED crashed
    <2>1. /\ raw' \in [Resources -> 0 .. MaxRaw]
          /\ \A r \in Resources :
               count[r] - raw'[r] = count[r] - raw[r] + (IF r = value THEN 1 ELSE 0)
      <3>1. Retained(value, "ASSUME") = count
        BY DEF Retained
      <3> QED
        BY <1>1, <1>4, <3>1, PassedFacts
    <2>2. /\ held' \in [Owners -> Values] /\ held'[o] = value
          /\ \A q \in Owners \ {o} : held'[q] = held[q]
      BY <1>2, <1>4
    <2>3. TypeOK'
      BY <1>1, <1>4, <2>1, <2>2 DEF TypeOK, Counted
    <2>4. Sound'
      BY <1>1, <2>2 DEF Sound, At
    <2>5. ASSUME NEW s \in Resources
          PROVE  count'[s] = raw'[s] + Cardinality(OwnersOf(s)') + Cardinality(Pending(s)')
                             + Cardinality(Parents(s)')
      <3>1. o \notin OwnersOf(s)
        BY <1>4, OwnershipAssumption DEF OwnersOf
      <3>2. OwnersOf(s)' = IF s = value THEN OwnersOf(s) \cup {o} ELSE OwnersOf(s)
        BY <1>1, <2>2, <3>1 DEF OwnersOf, Sound, At
      <3>3. Cardinality(OwnersOf(s)') = Cardinality(OwnersOf(s)) + (IF s = value THEN 1 ELSE 0)
        BY <3>1, <3>2, OwnerGains
      <3>4. Pending(s)' = Pending(s) /\ Parents(s)' = Parents(s)
        BY <1>1 DEF Pending, Parents, At
      <3>5. count[s] = raw[s] + Cardinality(OwnersOf(s)) + Cardinality(Pending(s))
                       + Cardinality(Parents(s))
        BY <1>1 DEF Balanced
      <3>6. /\ raw[s] \in Nat /\ count[s] \in Nat /\ raw'[s] \in Nat /\ count'[s] = count[s]
            /\ count[s] - raw'[s] = count[s] - raw[s] + (IF s = value THEN 1 ELSE 0)
        BY <1>1, <1>2, <2>1
      <3> QED
        BY <3>3, <3>4, <3>5, <3>6, HolderCounts
    <2>6. Balanced'
      BY <2>5 DEF Balanced
    <2> QED
      BY <2>3, <2>4, <2>6 DEF IInv
  <1> QED
    BY <1>3, <1>4 DEF InitializeInto

-----------------------------------------------------------------------------
(* A Free takes the reference of its owner. *)
LEMMA FreeFacts ==
  ASSUME IInv, NEW o \in Owners, NEW error \in Errors, Free(o, error)
  PROVE  /\ ~crashed /\ TypeOK /\ Sound /\ Balanced
         /\ held[o] \in Resources /\ o \in OwnersOf(held[o]) /\ count[held[o]] > 0
         /\ Lose(held[o])
         /\ call' \in [Owners -> CallRecords]
         /\ call'[o].freed /\ call'[o].at = call[o].at /\ call'[o].value = call[o].value
         /\ \A q \in Owners \ {o} : call'[q] = call[q]
         /\ UNCHANGED <<traits, raw, held>>
  <1>1. /\ ~crashed /\ At(o) \in {"reset", "destroy"} /\ ~call[o].freed
        /\ Lose(held[o]) /\ call' = [call EXCEPT ![o].freed = TRUE]
        /\ UNCHANGED <<traits, raw, held>>
        /\ TypeOK /\ Sound /\ Balanced
    BY DEF Free, IGNORE_EINTR, IInv
  <1>2. call \in [Owners -> CallRecords] /\ held[o] \in Resources
    BY <1>1, OwnerTypes DEF Sound
  <1>3. o \in OwnersOf(held[o])
    BY <1>1, <1>2 DEF OwnersOf
  <1>4. count[held[o]] > 0
    BY <1>1, <1>2, <1>3, HeldExists
  <1>5. /\ call' \in [Owners -> CallRecords]
        /\ call'[o].freed /\ call'[o].at = call[o].at /\ call'[o].value = call[o].value
        /\ \A q \in Owners \ {o} : call'[q] = call[q]
    BY <1>1, <1>2 DEF CallRecords
  <1> QED
    BY <1>1, <1>2, <1>3, <1>4, <1>5

LEMMA FreeKeeps ==
  ASSUME IInv, NEW o \in Owners, NEW error \in Errors, Free(o, error)
  PROVE  IInv'
  <1> DEFINE r == held[o]
  <1>1. /\ ~crashed /\ TypeOK /\ Sound /\ Balanced
        /\ r \in Resources /\ o \in OwnersOf(r) /\ count[r] > 0
        /\ Lose(r)
        /\ call' \in [Owners -> CallRecords]
        /\ call'[o].freed /\ call'[o].at = call[o].at /\ call'[o].value = call[o].value
        /\ \A q \in Owners \ {o} : call'[q] = call[q]
        /\ UNCHANGED <<traits, raw, held>>
    BY FreeFacts
  <1>2. crashed' \in BOOLEAN /\ At(o) \in {"reset", "destroy"}
    BY DEF Free
  <1>3. /\ count' \in [Resources -> Nat]
        /\ \A s \in Resources : count'[s] = count[s] - (IF s = r THEN 1 ELSE 0)
        /\ dying' \subseteq Resources
        /\ \A s \in dying' : child'[s] \in Resources /\ count'[s] = 0
        /\ child' = child
        /\ \A s \in Resources : Parents(s)' = Parents(s)
        /\ ~Counted => \A s \in Resources : count'[s] <= 1
    BY <1>1, LoseFacts
  <1>4. /\ count \in [Resources -> Nat] /\ raw \in [Resources -> 0 .. MaxRaw] /\ MaxRaw \in Nat
    BY <1>1, OwnerTypes
  <1>5. TypeOK'
    BY <1>1, <1>2, <1>3 DEF TypeOK, Counted, CallRecords
  <1>6. Sound'
    <2>1. \A q \in Owners :
            /\ At(q)' \in {"none", "idle", "destroy"} => call'[q].value = InvalidValue
            /\ At(q)' \in {"none", "idle"} => ~call'[q].freed
            /\ At(q)' \in {"reset", "destroy"} => held'[q] \in Resources
      BY <1>1, <1>2 DEF Sound, At
    <2> QED
      BY <1>3, <2>1 DEF Sound
  <1>7. ASSUME NEW s \in Resources
        PROVE  count'[s] = raw'[s] + Cardinality(OwnersOf(s)') + Cardinality(Pending(s)')
                             + Cardinality(Parents(s)')
    <2>1. OwnersOf(s)' = OwnersOf(s) \ {o}
      BY <1>1 DEF OwnersOf, At
    <2>2. o \in OwnersOf(s) <=> s = r
      BY <1>1 DEF OwnersOf
    <2>3. Cardinality(OwnersOf(s)') = Cardinality(OwnersOf(s)) - (IF s = r THEN 1 ELSE 0)
      <3>1. CASE s = r
        BY <2>1, <2>2, <3>1, HoldersFinite, Sizes
      <3>2. CASE s # r
        <4>1. OwnersOf(s)' = OwnersOf(s)
          BY <2>1, <2>2, <3>2
        <4> QED
          BY <3>2, <4>1, HolderCounts
      <3> QED
        BY <3>1, <3>2
    <2>4. Pending(s)' = Pending(s)
      BY <1>1 DEF Pending, At
    <2>5. Parents(s)' = Parents(s)
      BY <1>3
    <2>6. count[s] = raw[s] + Cardinality(OwnersOf(s)) + Cardinality(Pending(s))
                       + Cardinality(Parents(s))
      BY <1>1 DEF Balanced
    <2>7. /\ raw[s] \in Nat /\ count[s] \in Nat /\ raw'[s] = raw[s]
          /\ count'[s] = count[s] - (IF s = r THEN 1 ELSE 0)
      BY <1>1, <1>3, <1>4
    <2> QED
      BY <2>3, <2>4, <2>5, <2>6, <2>7, HolderCounts
  <1>8. Balanced'
    BY <1>7 DEF Balanced
  <1> QED
    BY <1>5, <1>6, <1>8 DEF IInv

LEMMA ReturnKeeps ==
  ASSUME IInv, NEW o \in Owners, Return(o)
  PROVE  IInv'
  <1> DEFINE after == [NoCall EXCEPT !.at = IF At(o) = "destroy" THEN "none" ELSE "idle"]
             value == call[o].value
  <1>1. /\ ~crashed /\ call[o].freed
        /\ held' = [held EXCEPT ![o] = value]
        /\ call' = [call EXCEPT ![o] = after]
        /\ UNCHANGED <<traits, count, child, dying, raw, crashed>>
        /\ TypeOK /\ Sound /\ Balanced
    BY DEF Return, IInv, resources
  <1>2. /\ held \in [Owners -> Values] /\ call \in [Owners -> CallRecords]
        /\ count \in [Resources -> Nat] /\ raw \in [Resources -> 0 .. MaxRaw] /\ MaxRaw \in Nat
    BY <1>1, OwnerTypes
  <1>3. /\ At(o) \in {"reset", "destroy"} /\ value \in Values
        /\ At(o) = "destroy" => value = InvalidValue
    BY <1>1, <1>2 DEF Sound, At, CallRecords
  <1>4. /\ after \in CallRecords /\ ~after.freed /\ after.value = InvalidValue
        /\ after.at = IF At(o) = "destroy" THEN "none" ELSE "idle"
    BY DEF NoCall, CallRecords, Values
  <1> HIDE DEF after
  <1>5. /\ held' \in [Owners -> Values] /\ call' \in [Owners -> CallRecords]
        /\ held'[o] = value /\ call'[o] = after
        /\ \A q \in Owners \ {o} : held'[q] = held[q] /\ call'[q] = call[q]
    BY <1>1, <1>2, <1>3, <1>4
  <1>6. TypeOK'
    BY <1>1, <1>5 DEF TypeOK, Counted, CallRecords
  <1>7. Sound'
    <2>1. \A q \in Owners :
            /\ At(q)' \in {"none", "idle", "destroy"} => call'[q].value = InvalidValue
            /\ At(q)' \in {"none", "idle"} => ~call'[q].freed
            /\ At(q)' \in {"reset", "destroy"} => held'[q] \in Resources
      BY <1>1, <1>4, <1>5 DEF Sound, At
    <2> QED
      BY <1>1, <2>1 DEF Sound
  <1>8. ASSUME NEW s \in Resources
        PROVE  count'[s] = raw'[s] + Cardinality(OwnersOf(s)') + Cardinality(Pending(s)')
                             + Cardinality(Parents(s)')
    <2>1. o \notin OwnersOf(s)
      BY <1>1 DEF OwnersOf
    <2>2. o \in Pending(s) <=> s = value
      BY <1>3, OwnershipAssumption DEF Pending
    <2>3. OwnersOf(s)' = IF s = value THEN OwnersOf(s) \cup {o} ELSE OwnersOf(s)
      BY <1>3, <1>4, <1>5, <2>1, OwnershipAssumption DEF OwnersOf, At
    <2>4. Cardinality(OwnersOf(s)') = Cardinality(OwnersOf(s)) + (IF s = value THEN 1 ELSE 0)
      BY <2>1, <2>3, OwnerGains
    <2>5. Pending(s)' = Pending(s) \ {o}
      BY <1>4, <1>5 DEF Pending, At
    <2>6. Cardinality(Pending(s)') = Cardinality(Pending(s)) - (IF s = value THEN 1 ELSE 0)
      <3>1. CASE s = value
        BY <2>2, <2>5, <3>1, HoldersFinite, Sizes
      <3>2. CASE s # value
        <4>1. Pending(s)' = Pending(s)
          BY <2>2, <2>5, <3>2
        <4> QED
          BY <3>2, <4>1, HolderCounts
      <3> QED
        BY <3>1, <3>2
    <2>7. Parents(s)' = Parents(s)
      BY <1>1 DEF Parents
    <2>8. count[s] = raw[s] + Cardinality(OwnersOf(s)) + Cardinality(Pending(s))
                       + Cardinality(Parents(s))
      BY <1>1 DEF Balanced
    <2>9. raw[s] \in Nat /\ count[s] \in Nat /\ raw'[s] = raw[s] /\ count'[s] = count[s]
      BY <1>1, <1>2
    <2> QED
      BY <2>4, <2>6, <2>7, <2>8, <2>9, HolderCounts
  <1>9. Balanced'
    BY <1>8 DEF Balanced
  <1> QED
    BY <1>6, <1>7, <1>9 DEF IInv

-----------------------------------------------------------------------------
LEMMA InitEstablishes == Init => IInv
  <1> SUFFICES ASSUME Init PROVE IInv
    OBVIOUS
  <1>1. TypeOK
    <2>1. InvalidValue \in Values /\ 0 \in 0 .. MaxRaw /\ MaxRaw \in Nat
      BY OwnershipAssumption DEF Values
    <2>2. [NoCall EXCEPT !.at = "none"] \in CallRecords
      BY <2>1 DEF NoCall, CallRecords
    <2>3. call \in [Owners -> CallRecords]
      BY <2>2 DEF Init
    <2>4. raw \in [Resources -> 0 .. MaxRaw]
      BY <2>1 DEF Init
    <2>5. /\ count \in [Resources -> Nat]
          /\ child \in [Resources -> Values]
          /\ held \in [Owners -> Values]
      BY <2>1 DEF Init
    <2>6. \A r \in Resources : count[r] <= 1
      BY DEF Init
    <2>7. traits \in Classes /\ dying \subseteq Resources /\ crashed \in BOOLEAN
      BY DEF Init
    <2> QED
      BY <2>3, <2>4, <2>5, <2>6, <2>7 DEF TypeOK, CallRecords
  <1>2. Sound
    BY DEF Init, Sound, At, NoCall
  <1>3. ASSUME NEW s \in Resources
        PROVE  count[s] = raw[s] + Cardinality(OwnersOf(s)) + Cardinality(Pending(s))
                            + Cardinality(Parents(s))
    <2>1. OwnersOf(s) = {} /\ Pending(s) = {} /\ Parents(s) = {}
      BY OwnershipAssumption DEF Init, OwnersOf, Pending, Parents, At, NoCall
    <2>2. Cardinality({}) = 0
      BY FS_EmptySet
    <2>3. count[s] = 0 /\ raw[s] = 0
      BY DEF Init
    <2> QED
      BY <2>1, <2>2, <2>3
  <1> QED
    BY <1>1, <1>2, <1>3 DEF IInv, Balanced

LEMMA NextKeeps ==
  ASSUME IInv, [Next]_vars
  PROVE  IInv'
  <1>1. CASE UNCHANGED vars
    BY <1>1 DEF vars, IInv, TypeOK, Sound, Balanced, OwnersOf, Pending, Parents, At, Counted
  <1>2. CASE Crashed
    BY <1>1, <1>2 DEF Crashed
  <1>3. CASE \E r \in Resources, c \in Values : Create(r, c)
    BY <1>3, CreateKeeps
  <1>4. CASE \E r \in Resources : Duplicate(r) \/ RawFree(r) \/ LosesChild(r)
    BY <1>4, DuplicateKeeps, RawFreeKeeps, LosesChildKeeps
  <1>5. CASE \E o \in Owners, value \in Values, policy \in {"ASSUME", "RETAIN"} :
               Construct(o, value, policy) \/ Reset(o, value, policy)
    BY <1>5, ConstructKeeps, ResetKeeps
  <1>6. CASE \E o \in Owners, value \in Values : InitializeInto(o, value)
    BY <1>6, InitializeIntoKeeps
  <1>7. CASE \E o, p \in Owners : MoveConstruct(o, p) \/ MoveAssign(o, p) \/ Swap(o, p)
    BY <1>7, MoveConstructKeeps, MoveAssignKeeps, SwapKeeps
  <1>8. CASE \E o \in Owners : ResetToItself(o) \/ Release(o) \/ Destroy(o) \/ Return(o)
    BY <1>8, ResetToItselfKeeps, ReleaseKeeps, DestroyKeeps, ReturnKeeps
  <1>9. CASE \E o \in Owners : \E error \in Errors : Free(o, error)
    BY <1>9, FreeKeeps
  <1> QED
    BY <1>1, <1>2, <1>3, <1>4, <1>5, <1>6, <1>7, <1>8, <1>9 DEF Next

LEMMA Invariance == Spec => []IInv
  BY InitEstablishes, NextKeeps, PTL DEF Spec

(* Nothing is freed that does not exist, in crashed processes either.      *)
THEOREM TypeCorrect == Spec => []TypeOK
  <1>1. IInv => TypeOK
    BY DEF IInv
  <1> QED
    BY Invariance, <1>1, PTL

(* Every reference has one holder and every holder has its own reference   *)
(* (scoped_generic.h, lines 35-90; scoped_typeref.h, lines 24-135).        *)
THEOREM BalancedHolds == Spec => []Balanced
  <1>1. IInv => Balanced
    BY DEF IInv, Balanced
  <1> QED
    BY Invariance, <1>1, PTL

(* Only a Free sets freed. *)
LEMMA FreedByFree ==
  ASSUME IInv, [Next]_vars, NEW o \in Owners, call'[o].freed, ~call[o].freed
  PROVE  \E error \in Errors : Free(o, error)
  <1>1. ASSUME NEW q \in Owners, NEW record \in CallRecords,
               call' = [call EXCEPT ![q] = record], ~record.freed
        PROVE  FALSE
    <2>1. call \in [Owners -> CallRecords]
      BY OwnerTypes DEF IInv
    <2> QED
      BY <1>1, <2>1
  <1>2. ~(UNCHANGED call)
    OBVIOUS
  <1>3. ~Crashed /\ ~(UNCHANGED vars)
    BY <1>2 DEF Crashed, vars
  <1>4. ASSUME NEW q \in Owners, NEW value \in Values, NEW h, StartReset(q, value, h)
        PROVE  FALSE
    <2>1. /\ [at |-> "reset", value |-> value, freed |-> FALSE] \in CallRecords
          /\ ~[at |-> "reset", value |-> value, freed |-> FALSE].freed
      BY DEF CallRecords
    <2> QED
      BY <1>1, <1>2, <1>4, <2>1 DEF StartReset
  <1>5. ~\E r \in Resources, c \in Values : Create(r, c)
    BY <1>2 DEF Create
  <1>6. ~\E r \in Resources : Duplicate(r) \/ RawFree(r) \/ LosesChild(r)
    BY <1>2 DEF Duplicate, RawFree, LosesChild
  <1>7. ~\E q \in Owners, value \in Values, policy \in {"ASSUME", "RETAIN"} :
           Construct(q, value, policy) \/ Reset(q, value, policy)
    BY <1>1, <1>4, NoCallFacts DEF Construct, Reset
  <1>8. ~\E q \in Owners, value \in Values : InitializeInto(q, value)
    BY <1>2 DEF InitializeInto
  <1>9. ~\E q, p \in Owners : MoveConstruct(q, p) \/ MoveAssign(q, p) \/ Swap(q, p)
    <2>1. \A p \in Owners : held[p] \in Values
      BY OwnerTypes DEF IInv
    <2> QED
      BY <1>1, <1>2, <1>4, <2>1, NoCallFacts DEF MoveConstruct, MoveAssign, Swap
  <1>10. ~\E q \in Owners : ResetToItself(q) \/ Release(q) \/ Destroy(q) \/ Return(q)
    <2>1. \A q \in Owners : held[q] \in Values
      BY OwnerTypes DEF IInv
    <2>2. ASSUME NEW q \in Owners, Return(q)
          PROVE  FALSE
      <3> DEFINE after == [NoCall EXCEPT !.at = IF At(q) = "destroy" THEN "none" ELSE "idle"]
      <3>1. after \in CallRecords /\ ~after.freed /\ call' = [call EXCEPT ![q] = after]
        BY <2>2 DEF NoCall, CallRecords, Values, Return
      <3> HIDE DEF after
      <3> QED
        BY <1>1, <3>1
    <2>3. ASSUME NEW q \in Owners, Destroy(q)
          PROVE  FALSE
      <3>1. call \in [Owners -> CallRecords]
        BY OwnerTypes DEF IInv
      <3> QED
        BY <2>3, <3>1 DEF Destroy, CallRecords
    <2> QED
      BY <1>2, <1>4, <2>1, <2>2, <2>3 DEF ResetToItself, Release
  <1>11. PICK q \in Owners : \E error \in Errors : Free(q, error)
    BY <1>3, <1>5, <1>6, <1>7, <1>8, <1>9, <1>10 DEF Next
  <1>12. q = o
    <2>1. \A p \in Owners \ {q} : call'[p] = call[p]
      BY <1>11, FreeFacts
    <2> QED
      BY <2>1
  <1> QED
    BY <1>11, <1>12

(* A Free leaves every other holder its reference (scoped_file.cc, line    *)
(* 23; close_nocancel.cc, lines 11-15).                                    *)
THEOREM ClosesOnlyItsOwnHolds == Spec => ClosesOnlyItsOwn
  <1> DEFINE Own == \A o \in Owners, r \in Resources :
                      call'[o].freed /\ ~call[o].freed =>
                        count'[r] >= raw[r] + Cardinality(OwnersOf(r) \ {o})
  <1>1. ASSUME IInv, [Next]_vars
        PROVE  Own
    <2> SUFFICES ASSUME NEW o \in Owners, NEW r \in Resources, call'[o].freed, ~call[o].freed
                 PROVE  count'[r] >= raw[r] + Cardinality(OwnersOf(r) \ {o})
      OBVIOUS
    <2>1. PICK error \in Errors : Free(o, error)
      BY <1>1, FreedByFree
    <2>2. /\ ~crashed /\ TypeOK /\ Sound /\ Balanced
          /\ held[o] \in Resources /\ o \in OwnersOf(held[o]) /\ count[held[o]] > 0
          /\ Lose(held[o])
      BY <1>1, <2>1, FreeFacts
    <2>3. count'[r] = count[r] - (IF r = held[o] THEN 1 ELSE 0)
      BY <2>2, LoseFacts
    <2>4. Cardinality(OwnersOf(r) \ {o}) = Cardinality(OwnersOf(r)) - (IF r = held[o] THEN 1 ELSE 0)
      <3>1. CASE r = held[o]
        BY <2>2, <3>1, HoldersFinite, Sizes
      <3>2. CASE r # held[o]
        <4>1. OwnersOf(r) \ {o} = OwnersOf(r)
          BY <3>2 DEF OwnersOf
        <4> QED
          BY <3>2, <4>1, HolderCounts
      <3> QED
        BY <3>1, <3>2
    <2>5. count[r] = raw[r] + Cardinality(OwnersOf(r)) + Cardinality(Pending(r))
                       + Cardinality(Parents(r))
      BY <2>2 DEF Balanced
    <2>6. count[r] \in Nat /\ raw[r] \in Nat
      BY <2>2, OwnerTypes
    <2> QED
      BY <2>3, <2>4, <2>5, <2>6, HolderCounts
  <1> QED
    BY Invariance, <1>1, PTL DEF Spec, ClosesOnlyItsOwn
=============================================================================
