------------------------- MODULE SpecialTokensProofs -------------------------
(***************************************************************************)
(* Proofs about the token registry, for any number of translation threads, *)
(* any vocabulary, any size of the cache, any tokens and any times.        *)
(*                                                                         *)
(* UniqueIndex fails in the program: between the calls that one look-up of *)
(* a word makes to the registry another thread may make its own, and the   *)
(* words of the vocabulary that are tagged are counted like those that     *)
(* need an index.  The first part proves that nothing else makes it fail.  *)
(***************************************************************************)
EXTENDS SpecialTokens, FiniteSetTheorems, WellFoundedInduction, TLAPS

\* A thread is between the first and the last call that a look-up makes
\* (OOVHandler::getWordIndexOptions).
InCall(t) == pc[t] \in {"found", "obtain", "insertToken", "insertRule"}

\* No two look-ups overlap, as under one mutex for the whole of each.
OneAtATime == \A t, u \in Thread : InCall(t) /\ InCall(u) => t = u

\* No word that is looked up is of the vocabulary.
Untagged == \A t \in Thread : token[t] \notin InVocabulary

CachedIndexes == {IndexOf(k) : k \in Keys(SpecialTokens)}

\* The indexes that were obtained and whose tokens are not yet inserted.
InHand == {index[t] : t \in {u \in Thread : pc[u] = "insertToken"}}

\* All indexes that were ever made are cached, free or in hand, and they are the
\* first ones above the vocabulary: this is why counting the cached tokens gives a
\* new one when none is free.
NoGaps == \E n \in Nat : CachedIndexes \cup AvailableWordIndexes \cup InHand
                            = WordIndexOffset..(WordIndexOffset + n - 1)

InHandIsNew == InHand \cap (CachedIndexes \cup AvailableWordIndexes) = {}

\* The variables of a thread agree with the cache.
ThreadSound(t) ==
    /\ pc[t] \in {"obtain", "insertToken"} => token[t] \notin Keys(SpecialTokens)
    /\ pc[t] = "insertRule" => token[t] \in Keys(SpecialTokens) /\ index[t] = IndexOf(token[t])
    /\ IF pc[t] = "found" THEN held[t] \in Values(SpecialTokens) ELSE held[t] = NULL

Shape ==
    /\ SpecialTokens = [value |-> SpecialTokens.value, accessed |-> SpecialTokens.accessed]
    /\ IsFiniteSet(Keys(SpecialTokens))
    /\ DOMAIN pc = Thread /\ DOMAIN token = Thread /\ DOMAIN index = Thread /\ DOMAIN held = Thread

\* The inductive invariant of the behaviours in which no two look-ups overlap.
IInv ==
    /\ Shape /\ \A t \in Thread : ThreadSound(t)
    /\ NoGaps /\ InHandIsNew
    /\ UniqueIndex /\ RuleOfToken

-----------------------------------------------------------------------------
(* The cache.                                                                 *)

\* Reading changes no value.
LEMMA TouchKeepsValues ==
    ASSUME NEW cache, cache = [value |-> cache.value, accessed |-> cache.accessed],
           NEW k, NEW time
    PROVE  LET after == touch(cache, k, time)
           IN  after = [value |-> after.value, accessed |-> after.accessed] /\ after.value = cache.value
BY DEF touch

\* An insertion stores the value; what else is stored afterwards was stored before.
LEMMA InsertKeepsOrDrops ==
    ASSUME NEW cache, NEW k, NEW v, NEW time
    PROVE  LET after == insert(cache, k, v, time)
           IN  /\ after = [value |-> after.value, accessed |-> after.accessed]
               /\ k \in Keys(after) /\ after.value[k] = v
               /\ \A j \in Keys(after) \ {k} : j \in Keys(cache) /\ after.value[j] = cache.value[j]
BY DEF insert, evict, Assign, Without, Keys

-----------------------------------------------------------------------------
(* Counting.                                                                  *)

\* With an index for each, there are as many indexes as cached tokens.
LEMMA AsManyIndexesAsTokens ==
    ASSUME UniqueIndex, IsFiniteSet(Keys(SpecialTokens))
    PROVE  IsFiniteSet(CachedIndexes) /\ Cardinality(CachedIndexes) = Cardinality(Keys(SpecialTokens))
<1> DEFINE K == Keys(SpecialTokens)
           f == [k \in K |-> IndexOf(k)]
<1>1. f \in Bijection(K, CachedIndexes)
  BY DEF UniqueIndex, CachedIndexes, Bijection, Injection, Surjection, IsInjective
<1>2. ExistsBijection(K, CachedIndexes)
  BY <1>1 DEF ExistsBijection
<1>3. QED
  BY <1>2, FS_Bijection

\* When none is free and none is in hand the count is the next index.
LEMMA CountIsNext ==
    ASSUME IInv, InHand = {}, AvailableWordIndexes = {}
    PROVE  LET next == WordIndexOffset + Cardinality(Keys(SpecialTokens))
           IN  /\ next \notin CachedIndexes
               /\ \E n \in Nat : CachedIndexes \cup {next} = WordIndexOffset..(WordIndexOffset + n - 1)
<1>1. PICK n \in Nat : CachedIndexes = WordIndexOffset..(WordIndexOffset + n - 1)
  BY DEF IInv, NoGaps
<1>2. Cardinality(CachedIndexes) = Cardinality(Keys(SpecialTokens))
  BY AsManyIndexesAsTokens DEF IInv, Shape
<1>3. Cardinality(CachedIndexes) = n
  <2> HIDE DEF CachedIndexes
  <2>1. WordIndexOffset \in Int /\ WordIndexOffset + n - 1 \in Int
    BY TokensAssumption
  <2>2. Cardinality(WordIndexOffset..(WordIndexOffset + n - 1)) = n
    BY <2>1, FS_Interval, TokensAssumption
  <2>3. QED
    BY <2>2, <1>1
<1>4. WordIndexOffset..(WordIndexOffset + n - 1) \cup {WordIndexOffset + n}
         = WordIndexOffset..(WordIndexOffset + (n + 1) - 1)
  BY TokensAssumption
<1>5. WordIndexOffset + n \notin CachedIndexes /\ n + 1 \in Nat
  BY <1>1, TokensAssumption
<1>6. Cardinality(Keys(SpecialTokens)) = n
  BY <1>2, <1>3
<1> HIDE DEF CachedIndexes, Keys
<1>7. CachedIndexes \cup {WordIndexOffset + n} = WordIndexOffset..(WordIndexOffset + (n + 1) - 1)
  BY <1>1, <1>4
<1>8. QED
  BY <1>5, <1>6, <1>7

-----------------------------------------------------------------------------
(* The threads.                                                               *)

\* What a step of one thread leaves to the others.
OthersStay(t) ==
    \A u \in Thread \ {t} : pc'[u] = pc[u] /\ token'[u] = token[u] /\ index'[u] = index[u] /\ held'[u] = held[u]

\* While a thread is in its look-up the others hold nothing and have nothing in hand.
LEMMA OthersAreOut ==
    ASSUME IInv, OneAtATime, NEW t \in Thread, InCall(t)
    PROVE  \A u \in Thread \ {t} :
              pc[u] \notin {"found", "obtain", "insertToken", "insertRule"} /\ held[u] = NULL
BY DEF IInv, ThreadSound, OneAtATime, InCall

LEMMA OthersStaySound ==
    ASSUME IInv, OneAtATime, NEW t \in Thread, InCall(t), OthersStay(t), ThreadSound(t)'
    PROVE  \A u \in Thread : ThreadSound(u)'
<1>1. ASSUME NEW u \in Thread \ {t} PROVE ThreadSound(u)'
  <2>1. pc'[u] \notin {"found", "obtain", "insertToken", "insertRule"} /\ held'[u] = NULL
    BY OthersAreOut DEF OthersStay
  <2>2. QED
    BY <2>1 DEF ThreadSound
<1>2. QED
  BY <1>1

\* So that only one index can be in hand.
LEMMA InHandIs ==
    ASSUME IInv, OneAtATime, NEW t \in Thread, InCall(t), OthersStay(t)
    PROVE  /\ InHand = IF pc[t] = "insertToken" THEN {index[t]} ELSE {}
           /\ InHand' = IF pc'[t] = "insertToken" THEN {index'[t]} ELSE {}
<1>1. \A u \in Thread \ {t} : pc[u] # "insertToken" /\ pc'[u] # "insertToken"
  BY OthersAreOut DEF OthersStay
<1>2. InHand = IF pc[t] = "insertToken" THEN {index[t]} ELSE {}
  BY <1>1 DEF InHand
<1>3. InHand' = {index'[u] : u \in {w \in Thread : pc'[w] = "insertToken"}}
  BY DEF InHand
<1>4. QED
  BY <1>1, <1>2, <1>3

-----------------------------------------------------------------------------
(* The steps.                                                                 *)

\* Steps that change no index and no rule.
LEMMA SameRegistry ==
    ASSUME IInv, NEW t \in Thread, Shape', ThreadSound(t)', OthersStay(t),
           SpecialTokens'.value = SpecialTokens.value,
           UNCHANGED <<HandledSpecialTokens, AvailableWordIndexes>>,
           pc[t] \notin {"insertToken", "insertRule"}, pc'[t] \notin {"insertToken", "insertRule"}
    PROVE  IInv'
<1>1. /\ Keys(SpecialTokens)' = Keys(SpecialTokens)
      /\ Values(SpecialTokens)' = Values(SpecialTokens)
      /\ CachedIndexes' = CachedIndexes
      /\ \A k \in Keys(SpecialTokens) : IndexOf(k)' = IndexOf(k)
  BY DEF Keys, Values, CachedIndexes, IndexOf
<1>2. InHand' = InHand
  <2>1. \A u \in Thread : /\ pc'[u] = "insertToken" <=> pc[u] = "insertToken"
                          /\ pc[u] = "insertToken" => index'[u] = index[u]
    BY DEF OthersStay
  <2>2. InHand' = {index'[u] : u \in {w \in Thread : pc'[w] = "insertToken"}}
    BY DEF InHand
  <2>3. {w \in Thread : pc'[w] = "insertToken"} = {w \in Thread : pc[w] = "insertToken"}
    BY <2>1
  <2>4. QED
    BY <2>1, <2>2, <2>3 DEF InHand
<1>3. UniqueIndex'
  BY <1>1 DEF IInv, UniqueIndex
<1>4. RuleOfToken'
  <2>1. \A k : (\E u \in Thread : pc[u] = "insertRule" /\ token[u] = k)
                  => \E u \in Thread : pc'[u] = "insertRule" /\ token'[u] = k
    BY DEF OthersStay
  <2>2. QED
    BY <1>1, <2>1 DEF IInv, RuleOfToken, getRuleNode
<1>5. NoGaps' /\ InHandIsNew'
  BY <1>1, <1>2 DEF IInv, NoGaps, InHandIsNew
<1>6. \A u \in Thread : ThreadSound(u)'
  <2>1. ASSUME NEW u \in Thread \ {t} PROVE ThreadSound(u)'
    <3>1. ThreadSound(u) /\ pc'[u] = pc[u] /\ token'[u] = token[u] /\ index'[u] = index[u] /\ held'[u] = held[u]
      BY DEF IInv, OthersStay
    <3>2. QED
      BY <1>1, <3>1 DEF ThreadSound
  <2>2. QED
    BY <2>1
<1>7. QED
  BY <1>3, <1>4, <1>5, <1>6 DEF IInv

LEMMA GetKeeps ==
    ASSUME IInv, NEW t \in Thread, NEW k \in Token, Get(t, k)
    PROVE  IInv'
<1>1. /\ SpecialTokens' = [value |-> SpecialTokens'.value, accessed |-> SpecialTokens'.accessed]
      /\ SpecialTokens'.value = SpecialTokens.value
  BY TouchKeepsValues DEF Get, IInv, Shape
<1>2. Shape'
  BY <1>1 DEF Get, Goto, IInv, Shape, Keys
<1>3. ThreadSound(t)'
  BY <1>1 DEF Get, Goto, IInv, Shape, ThreadSound, Keys, Values
<1>4. /\ pc[t] \notin {"insertToken", "insertRule"}
      /\ pc'[t] \notin {"insertToken", "insertRule"}
      /\ UNCHANGED <<HandledSpecialTokens, AvailableWordIndexes>>
      /\ OthersStay(t)
  BY DEF Get, Goto, IInv, Shape, OthersStay
<1>5. QED
  BY <1>1, <1>2, <1>3, <1>4, SameRegistry

\* The cache still has the object, so that dropping the copy destroys nothing.
LEMMA FoundKeeps ==
    ASSUME IInv, OneAtATime, NEW t \in Thread, Found(t)
    PROVE  IInv'
<1>1. {held[t]} \ (Values(SpecialTokens) \cup HeldBy(Thread \ {t})) = {}
  BY DEF Found, IInv, ThreadSound
<1>2. HandledSpecialTokens' = Without(HandledSpecialTokens, {}) /\ AvailableWordIndexes' = AvailableWordIndexes
  BY <1>1 DEF Found, removeWordIndexes
<1>3. /\ DOMAIN HandledSpecialTokens' = DOMAIN HandledSpecialTokens
      /\ \A i \in DOMAIN HandledSpecialTokens : HandledSpecialTokens'[i] = HandledSpecialTokens[i]
  BY <1>2 DEF Without
<1>4. /\ SpecialTokens' = SpecialTokens /\ pc[t] = "found" /\ pc' = [pc EXCEPT ![t] = "parse"]
      /\ InCall(t)
  BY DEF Found, Goto, InCall
<1>5. /\ Keys(SpecialTokens)' = Keys(SpecialTokens)
      /\ CachedIndexes' = CachedIndexes
      /\ \A k \in Keys(SpecialTokens) : IndexOf(k)' = IndexOf(k)
  BY <1>4 DEF Keys, CachedIndexes, IndexOf
<1>6. Shape' /\ ThreadSound(t)' /\ pc'[t] = "parse" /\ OthersStay(t)
  BY <1>4, <1>5 DEF Found, IInv, Shape, ThreadSound, OthersStay
<1>7. InHand = {} /\ InHand' = {}
  BY <1>4, <1>6, InHandIs
<1>8. NoGaps' /\ InHandIsNew'
  BY <1>2, <1>5, <1>7 DEF IInv, NoGaps, InHandIsNew
<1>9. UniqueIndex'
  BY <1>2, <1>5 DEF IInv, UniqueIndex
<1>10. RuleOfToken'
  <2>1. \A k : ~\E u \in Thread : pc[u] = "insertRule" /\ token[u] = k
    BY <1>4, OthersAreOut
  <2>2. QED
    BY <1>3, <1>5, <2>1 DEF IInv, RuleOfToken, getRuleNode
<1>11. \A u \in Thread : ThreadSound(u)'
  BY <1>4, <1>6, OthersStaySound
<1>12. QED
  BY <1>6, <1>8, <1>9, <1>10, <1>11 DEF IInv

\* The index obtained is free, or the next one; it is not cached.
LEMMA ObtainKeeps ==
    ASSUME IInv, OneAtATime, Untagged, NEW t \in Thread, Obtain(t)
    PROVE  IInv'
<1>1. PICK i \in obtainWordIndex : /\ index' = [index EXCEPT ![t] = i]
                                  /\ AvailableWordIndexes' = AvailableWordIndexes \ {i}
  BY DEF Obtain, Untagged
<1>2. /\ UNCHANGED <<SpecialTokens, HandledSpecialTokens, token, held>>
      /\ pc[t] = "obtain" /\ pc' = [pc EXCEPT ![t] = "insertToken"] /\ InCall(t)
  BY DEF Obtain, Goto, InCall
<1>3. /\ Keys(SpecialTokens)' = Keys(SpecialTokens)
      /\ CachedIndexes' = CachedIndexes
      /\ \A k \in Keys(SpecialTokens) : IndexOf(k)' = IndexOf(k)
  BY <1>2 DEF Keys, CachedIndexes, IndexOf
<1>4. Shape' /\ ThreadSound(t)' /\ pc'[t] = "insertToken" /\ index'[t] = i /\ OthersStay(t)
  BY <1>1, <1>2, <1>3 DEF IInv, Shape, ThreadSound, Values, OthersStay
<1>5. InHand = {} /\ InHand' = {i}
  BY <1>2, <1>4, InHandIs
<1>6. /\ i \notin CachedIndexes
      /\ \E n \in Nat : CachedIndexes \cup (AvailableWordIndexes \ {i}) \cup {i}
                           = WordIndexOffset..(WordIndexOffset + n - 1)
  <2>1. CASE AvailableWordIndexes # {}
    <3>1. i \in AvailableWordIndexes
      BY <2>1 DEF obtainWordIndex
    <3>2. i \notin CachedIndexes
      BY <3>1 DEF IInv, UniqueIndex, CachedIndexes
    <3>3. CachedIndexes \cup (AvailableWordIndexes \ {i}) \cup {i}
             = CachedIndexes \cup AvailableWordIndexes \cup InHand
      BY <3>1, <1>5
    <3>4. QED
      BY <3>2, <3>3 DEF IInv, NoGaps
  <2>2. CASE AvailableWordIndexes = {}
    <3>1. i = WordIndexOffset + Cardinality(Keys(SpecialTokens))
      BY <2>2 DEF obtainWordIndex
    <3>2. QED
      BY <2>2, <3>1, <1>5, CountIsNext
  <2>3. QED
    BY <2>1, <2>2
<1>7. NoGaps' /\ InHandIsNew'
  BY <1>1, <1>3, <1>5, <1>6 DEF NoGaps, InHandIsNew
<1>8. UniqueIndex'
  BY <1>1, <1>3 DEF IInv, UniqueIndex
<1>9. RuleOfToken'
  <2>1. \A k : ~\E u \in Thread : pc[u] = "insertRule" /\ token[u] = k
    BY <1>2, OthersAreOut
  <2>2. QED
    BY <1>2, <1>3, <2>1 DEF IInv, RuleOfToken, getRuleNode
<1>10. \A u \in Thread : ThreadSound(u)'
  BY <1>2, <1>4, OthersStaySound
<1>11. QED
  BY <1>4, <1>7, <1>8, <1>9, <1>10 DEF IInv

\* The tokens that are evicted take their rules with them and leave their indexes
\* behind; the index in hand becomes that of the new token.
LEMMA InsertTokenKeeps ==
    ASSUME IInv, OneAtATime, NEW t \in Thread, InsertToken(t)
    PROVE  IInv'
<1>0. PICK new : new = token[t]
  OBVIOUS
<1> DEFINE Kept == Keys(SpecialTokens) \cap Keys(SpecialTokens)'
           Gone == Keys(SpecialTokens) \ Keys(SpecialTokens)'
           Destroyed == Values(SpecialTokens) \ (Values(SpecialTokens)' \cup HeldBy(Thread))
           FreeNow == {IndexOf(k) : k \in Gone}
<1>1. /\ pc[t] = "insertToken" /\ pc' = [pc EXCEPT ![t] = "insertRule"]
      /\ UNCHANGED <<token, index, held>>
      /\ removeWordIndexes(Destroyed)
      /\ InCall(t)
  BY DEF InsertToken, Goto, Values, Keys, InCall
<1>15. OthersStay(t)
  BY <1>1 DEF OthersStay
<1>2. /\ new \notin Keys(SpecialTokens) /\ held[t] = NULL
      /\ InHand = {index[t]}
      /\ index[t] \notin CachedIndexes /\ index[t] \notin AvailableWordIndexes
  BY <1>0, <1>1, <1>15, InHandIs DEF IInv, ThreadSound, InHandIsNew
<1>3. /\ SpecialTokens' = [value |-> SpecialTokens'.value, accessed |-> SpecialTokens'.accessed]
      /\ new \in Keys(SpecialTokens)' /\ SpecialTokens'.value[new].index = index[t]
      /\ \A j \in Keys(SpecialTokens)' \ {new} :
            j \in Keys(SpecialTokens) /\ SpecialTokens'.value[j] = SpecialTokens.value[j]
  <2>1. /\ SpecialTokens' = [value |-> SpecialTokens'.value, accessed |-> SpecialTokens'.accessed]
        /\ new \in Keys(SpecialTokens') /\ SpecialTokens'.value[new] = NewObject(index[t])
        /\ \A j \in Keys(SpecialTokens') \ {new} :
              j \in Keys(SpecialTokens) /\ SpecialTokens'.value[j] = SpecialTokens.value[j]
    <3>1. SpecialTokens' = insert(SpecialTokens, new, NewObject(index[t]), currentTime)
      BY <1>0 DEF InsertToken
    <3>2. QED
      BY <3>1, InsertKeepsOrDrops
  <2>2. NewObject(index[t]).index = index[t]
    BY DEF NewObject
  <2>3. QED
    BY <2>1, <2>2 DEF Keys
<1>4. /\ Keys(SpecialTokens)' = Kept \cup {new}
      /\ IndexOf(new)' = index[t]
      /\ \A j \in Kept : IndexOf(j)' = IndexOf(j) /\ j # new
      /\ CachedIndexes' = {IndexOf(j) : j \in Kept} \cup {index[t]}
  <2>1. /\ Keys(SpecialTokens)' = Kept \cup {new}
        /\ \A j \in Kept : j # new
    BY <1>2, <1>3
  <2>2. /\ IndexOf(new)' = index[t]
        /\ \A j \in Kept : IndexOf(j)' = IndexOf(j)
    BY <1>3, <2>1 DEF IndexOf
  <2>3. CachedIndexes' = {IndexOf(j)' : j \in Keys(SpecialTokens)'}
    BY DEF CachedIndexes
  <2> HIDE DEF Kept
  <2>4. {IndexOf(j)' : j \in Kept \cup {new}} = {IndexOf(j) : j \in Kept} \cup {index[t]}
    BY <2>2
  <2>5. QED
    BY <2>1, <2>2, <2>3, <2>4
<1>5. {o.index : o \in Destroyed} = FreeNow
  <2>1. HeldBy(Thread) = {}
    BY <1>1, <1>2, OthersAreOut DEF HeldBy
  <2>2. ASSUME NEW j \in Gone PROVE SpecialTokens.value[j] \in Destroyed
    <3>1. ASSUME NEW m \in Keys(SpecialTokens)', SpecialTokens'.value[m] = SpecialTokens.value[j]
          PROVE  FALSE
      <4>1. CASE m = new
        <5>1. index[t] = IndexOf(j)
          BY <3>1, <4>1, <1>3 DEF IndexOf
        <5>2. QED
          BY <5>1, <1>2 DEF CachedIndexes
      <4>2. CASE m # new
        <5>1. m \in Keys(SpecialTokens) /\ IndexOf(m) = IndexOf(j)
          BY <3>1, <4>2, <1>3 DEF IndexOf
        <5>2. m = j
          BY <5>1 DEF IInv, UniqueIndex
        <5>3. QED
          BY <5>2
      <4>3. QED
        BY <4>1, <4>2
    <3>2. QED
      BY <3>1, <2>1 DEF Values, Keys
  <2>3. ASSUME NEW o \in Destroyed PROVE \E j \in Gone : o = SpecialTokens.value[j]
    <3>1. PICK j \in Keys(SpecialTokens) : o = SpecialTokens.value[j]
      BY DEF Values
    <3>2. j # new
      BY <1>2
    <3>3. j \notin Keys(SpecialTokens)'
      BY <3>1, <3>2, <1>3 DEF Values, Keys
    <3>4. QED
      BY <3>1, <3>3
  <2> HIDE DEF Destroyed, Gone
  <2>4. QED
    BY <2>2, <2>3 DEF IndexOf
<1>6. /\ AvailableWordIndexes' = AvailableWordIndexes \cup FreeNow
      /\ HandledSpecialTokens' = Without(HandledSpecialTokens, FreeNow)
  <2>1. \A i \in CachedIndexes : i \in Int /\ i >= WordIndexOffset
    BY TokensAssumption DEF IInv, NoGaps
  <2>2. FreeNow \subseteq CachedIndexes
    BY DEF CachedIndexes
  <2> HIDE DEF FreeNow, Destroyed
  <2>3. QED
    BY <1>1, <1>5, <2>1, <2>2 DEF removeWordIndexes
<1>7. CachedIndexes = {IndexOf(j) : j \in Kept} \cup FreeNow
  BY DEF CachedIndexes
<1>8. \A j \in Kept : IndexOf(j) \notin FreeNow
  BY DEF IInv, UniqueIndex
<1>9. Shape'
  <2>1. IsFiniteSet(Kept \cup {new})
    <3>1. IsFiniteSet(Kept)
      BY FS_Intersection DEF IInv, Shape
    <3>2. QED
      BY <3>1, FS_AddElement
  <2>2. QED
    BY <1>1, <1>3, <1>4, <2>1 DEF IInv, Shape
<1>10. pc'[t] = "insertRule" /\ ThreadSound(t)'
  BY <1>0, <1>1, <1>2, <1>4 DEF IInv, Shape, ThreadSound
<1>11. NoGaps' /\ InHandIsNew'
  <2> HIDE DEF Kept, FreeNow
  <2>1. InHand' = {}
    BY <1>1, <1>10, <1>15, InHandIs
  <2>2. CachedIndexes' \cup AvailableWordIndexes' \cup InHand'
           = CachedIndexes \cup AvailableWordIndexes \cup InHand
    BY <1>2, <1>4, <1>6, <1>7, <2>1
  <2>3. NoGaps'
    BY <2>2 DEF IInv, NoGaps
  <2>4. QED
    BY <2>1, <2>3 DEF InHandIsNew
<1>12. UniqueIndex'
  <2>1. \A j \in Kept : IndexOf(j) # index[t] /\ IndexOf(j) \notin AvailableWordIndexes
    BY <1>2 DEF IInv, UniqueIndex, CachedIndexes
  <2>2. \A j, k \in Kept : IndexOf(j) = IndexOf(k) => j = k
    BY DEF IInv, UniqueIndex
  <2>3. index[t] \notin FreeNow
    BY <1>2, <1>7
  <2> HIDE DEF Kept, FreeNow
  <2>4. \A j, k \in Kept \cup {new} : IndexOf(j)' = IndexOf(k)' => j = k
    BY <1>4, <2>1, <2>2
  <2>5. \A k \in Kept \cup {new} : IndexOf(k)' \notin AvailableWordIndexes'
    BY <1>2, <1>4, <1>6, <1>8, <2>1, <2>3
  <2>6. QED
    BY <1>4, <2>4, <2>5 DEF UniqueIndex
<1>13. RuleOfToken'
  <2>1. pc'[t] = "insertRule" /\ token'[t] = new
    BY <1>0, <1>1, <1>10
  <2>2. \A j \in Kept : getRuleNode(IndexOf(j)) = j
    <3>1. \A k : ~\E u \in Thread : pc[u] = "insertRule" /\ token[u] = k
      BY <1>1, OthersAreOut
    <3>2. QED
      BY <3>1 DEF IInv, RuleOfToken
  <2>3. DOMAIN HandledSpecialTokens \subseteq CachedIndexes
    BY DEF IInv, RuleOfToken, CachedIndexes
  <2> HIDE DEF Kept, FreeNow
  <2>4. \A j \in Kept : getRuleNode(IndexOf(j))' = j
    BY <2>2, <1>4, <1>6, <1>8 DEF getRuleNode, Without
  <2>5. DOMAIN HandledSpecialTokens' \subseteq CachedIndexes'
    BY <2>3, <1>4, <1>6, <1>7 DEF Without
  <2>6. CachedIndexes' = {IndexOf(k)' : k \in Keys(SpecialTokens)'}
    BY DEF CachedIndexes
  <2>7. QED
    BY <1>4, <2>1, <2>4, <2>5, <2>6 DEF RuleOfToken, getRuleNode
<1>14. \A u \in Thread : ThreadSound(u)'
  BY <1>1, <1>10, <1>15, OthersStaySound
<1>16. QED
  BY <1>9, <1>11, <1>12, <1>13, <1>14 DEF IInv

\* Nobody has evicted the token in between.
LEMMA InsertRuleKeeps ==
    ASSUME IInv, OneAtATime, NEW t \in Thread, insertRuleNode(t)
    PROVE  IInv'
<1>1. /\ pc[t] = "insertRule" /\ pc' = [pc EXCEPT ![t] = "parse"]
      /\ UNCHANGED <<SpecialTokens, AvailableWordIndexes, token, index, held>>
      /\ HandledSpecialTokens' = Assign(HandledSpecialTokens, index[t], token[t])
  BY DEF insertRuleNode, Goto
<1>9. InCall(t) /\ OthersStay(t)
  BY <1>1 DEF InCall, OthersStay
<1>2. token[t] \in Keys(SpecialTokens) /\ index[t] = IndexOf(token[t])
  BY <1>1 DEF IInv, ThreadSound
<1>3. /\ Keys(SpecialTokens)' = Keys(SpecialTokens)
      /\ CachedIndexes' = CachedIndexes
      /\ \A k \in Keys(SpecialTokens) : IndexOf(k)' = IndexOf(k)
  BY <1>1 DEF Keys, CachedIndexes, IndexOf
<1>4. Shape' /\ ThreadSound(t)' /\ pc'[t] = "parse"
  BY <1>1, <1>3 DEF IInv, Shape, ThreadSound, Values
<1>5. NoGaps' /\ InHandIsNew'
  <2>1. InHand = {} /\ InHand' = {}
    BY <1>1, <1>4, <1>9, InHandIs
  <2>2. QED
    BY <1>1, <1>3, <2>1 DEF IInv, NoGaps, InHandIsNew
<1>6. UniqueIndex'
  BY <1>1, <1>3 DEF IInv, UniqueIndex
<1>7. RuleOfToken'
  <2>1. DOMAIN HandledSpecialTokens' = DOMAIN HandledSpecialTokens \cup {index[t]}
    BY <1>1 DEF Assign
  <2>2. ASSUME NEW k \in Keys(SpecialTokens)
        PROVE  \/ IndexOf(k) \in DOMAIN HandledSpecialTokens' /\ HandledSpecialTokens'[IndexOf(k)] = k
               \/ IndexOf(k) \notin DOMAIN HandledSpecialTokens' /\ NULL = k
    <3>1. CASE k = token[t]
      BY <1>1, <1>2, <2>1, <3>1 DEF Assign
    <3>2. CASE k # token[t]
      <4>1. IndexOf(k) # index[t]
        BY <1>2, <3>2 DEF IInv, UniqueIndex
      <4>2. getRuleNode(IndexOf(k)) = k
        <5>1. ~\E u \in Thread : pc[u] = "insertRule" /\ token[u] = k
          BY <1>9, <3>2, OthersAreOut
        <5>2. QED
          BY <5>1 DEF IInv, RuleOfToken
      <4>3. QED
        BY <1>1, <2>1, <4>1, <4>2 DEF getRuleNode, Assign
    <3>3. QED
      BY <3>1, <3>2
  <2>3. DOMAIN HandledSpecialTokens' \subseteq CachedIndexes
    BY <1>2, <2>1 DEF IInv, RuleOfToken, CachedIndexes
  <2>4. CachedIndexes = {IndexOf(k)' : k \in Keys(SpecialTokens)'}
    BY <1>3 DEF CachedIndexes
  <2>5. QED
    BY <1>3, <2>2, <2>3, <2>4 DEF RuleOfToken, getRuleNode
<1>8. \A u \in Thread : ThreadSound(u)'
  BY <1>4, <1>9, OthersStaySound
<1>10. QED
  BY <1>4, <1>5, <1>6, <1>7, <1>8 DEF IInv

\* The search reads, and the clock runs.
LEMMA SearchKeeps ==
    ASSUME IInv, NEW t \in Thread, EndOfSentence(t) \/ LookUp(t) \/ Translated(t)
    PROVE  IInv'
<1>1. /\ UNCHANGED <<SpecialTokens, HandledSpecialTokens, AvailableWordIndexes, held>>
      /\ pc[t] \in {"parse", "search"} /\ pc'[t] \in {"parse", "search"}
      /\ DOMAIN pc' = Thread /\ DOMAIN token' = Thread /\ DOMAIN index' = Thread
      /\ OthersStay(t)
  BY DEF EndOfSentence, LookUp, Translated, Goto, registry, IInv, Shape, OthersStay
<1>2. Shape' /\ ThreadSound(t)'
  BY <1>1 DEF IInv, Shape, ThreadSound, Keys, Values
<1>3. QED
  BY <1>1, <1>2, SameRegistry

LEMMA ClockKeeps ==
    ASSUME IInv, Tick \/ UNCHANGED vars
    PROVE  IInv'
<1>1. UNCHANGED <<SpecialTokens, HandledSpecialTokens, AvailableWordIndexes, pc, token, index, held>>
  BY DEF Tick, registry, vars
<1>2. UNCHANGED <<Keys(SpecialTokens), Values(SpecialTokens), CachedIndexes, InHand>>
  BY <1>1 DEF Keys, Values, CachedIndexes, IndexOf, InHand
<1>3. Shape' /\ (\A t \in Thread : ThreadSound(t)') /\ NoGaps' /\ InHandIsNew'
  BY <1>1, <1>2 DEF IInv, Shape, ThreadSound, NoGaps, InHandIsNew, IndexOf
<1>4. UniqueIndex' /\ RuleOfToken'
  BY <1>1, <1>2 DEF IInv, UniqueIndex, RuleOfToken, IndexOf, getRuleNode
<1>5. QED
  BY <1>3, <1>4 DEF IInv

-----------------------------------------------------------------------------
LEMMA InitIInv == Init => IInv
<1> SUFFICES ASSUME Init PROVE IInv
  OBVIOUS
<1>1. SpecialTokens.value = << >> /\ Keys(SpecialTokens) = {}
  BY DEF Init, EmptyCache, Keys
<1>2. Shape /\ \A t \in Thread : ThreadSound(t)
  BY <1>1, FS_EmptySet DEF Init, EmptyCache, Shape, ThreadSound
<1>3. NoGaps /\ InHandIsNew
  <2>1. CachedIndexes = {} /\ AvailableWordIndexes = {} /\ InHand = {}
    BY <1>1 DEF Init, CachedIndexes, InHand
  <2>2. WordIndexOffset..(WordIndexOffset + 0 - 1) = {}
    BY TokensAssumption
  <2>3. QED
    BY <2>1, <2>2 DEF NoGaps, InHandIsNew
<1>4. UniqueIndex /\ RuleOfToken
  BY <1>1 DEF Init, UniqueIndex, RuleOfToken
<1>5. QED
  BY <1>2, <1>3, <1>4 DEF IInv

LEMMA NextIInv == IInv /\ OneAtATime /\ Untagged /\ [Next]_vars => IInv'
<1> SUFFICES ASSUME IInv, OneAtATime, Untagged, [Next]_vars PROVE IInv'
  OBVIOUS
<1>1. QED
  BY GetKeeps, FoundKeeps, ObtainKeeps, InsertTokenKeeps, InsertRuleKeeps, SearchKeeps, ClockKeeps
     DEF Next, ClockStops

\* However the cache evicts and however many threads there are, two words get one
\* index, or a word one that is free, only if two look-ups have overlapped or a tagged
\* word of the vocabulary was looked up (SpecialTokensRegistry::obtainWordIndex counts
\* the cached tokens).  The mutex of the registry, which is held for one call at a
\* time, rules out neither.
THEOREM IndexesAreUnique ==
    Spec /\ [](OneAtATime /\ Untagged) => []UniqueIndex
<1>1. Init => IInv
  BY InitIInv
<1>2. IInv /\ (OneAtATime /\ Untagged) /\ [Next]_vars => IInv'
  BY NextIInv
<1>3. IInv => UniqueIndex
  BY DEF IInv
<1>4. QED
  BY <1>1, <1>2, <1>3, PTL DEF Spec

\* The search finds under the index of a cached word the rule of that word, and evicted
\* words leave no rule (SpecialTokensRegistry::removeWordIndexes), unless two look-ups
\* have overlapped or a tagged word of the vocabulary was looked up.
THEOREM RulesFollowTheirTokens ==
    Spec /\ [](OneAtATime /\ Untagged) => []RuleOfToken
<1>1. Init => IInv
  BY InitIInv
<1>2. IInv /\ (OneAtATime /\ Untagged) /\ [Next]_vars => IInv'
  BY NextIInv
<1>3. IInv => RuleOfToken
  BY DEF IInv
<1>4. QED
  BY <1>1, <1>2, <1>3, PTL DEF Spec

-----------------------------------------------------------------------------
(* Types, for any number of threads.  A cache that holds two entries or more   *)
(* makes room whenever it is full.                                            *)

LEMMA LeastNumber ==
    ASSUME NEW S \in SUBSET Nat, S # {}
    PROVE  \E m \in S : \A k \in S : m <= k
<1> DEFINE R == OpToRel(<, Nat)
<1>1. IsWellFoundedOn(R, Nat)
  BY NatLessThanWellFounded
<1>2. \A i, j \in Nat : <<i, j>> \in R <=> i < j
  BY DEF OpToRel
<1> HIDE DEF R
<1>3. PICK m \in S : \A k \in S : <<k, m>> \notin R
  BY <1>1, WFMin
<1>4. ASSUME NEW k \in S PROVE m <= k
  <2>1. m \in Nat /\ k \in Nat
    OBVIOUS
  <2>2. ~(k < m)
    BY <1>2, <1>3, <2>1
  <2>3. QED
    BY <2>1, <2>2
<1>5. QED
  BY <1>4

LEMMA ImageIs ==
    ASSUME NEW f, IsFiniteSet(DOMAIN f)
    PROVE  LET T == {f[x] : x \in DOMAIN f}
           IN  IsFiniteSet(T) /\ Cardinality(T) <= Cardinality(DOMAIN f)
<1> DEFINE S == DOMAIN f  T == {f[x] : x \in S}  g == [x \in S |-> f[x]]
<1>1. g \in Surjection(S, T)
  BY DEF Surjection
<1>2. QED
  BY <1>1, FS_Surjection

\* What a cache of words and objects is.
Sized(cache) ==
    /\ cache = [value |-> cache.value, accessed |-> cache.accessed]
    /\ IsFiniteSet(Keys(cache)) /\ Cardinality(Keys(cache)) <= MaxItems
    /\ DOMAIN cache.accessed = Keys(cache)
    /\ \A k \in Keys(cache) : cache.accessed[k] \in Nat

Typed(cache) == Sized(cache) /\ Keys(cache) \subseteq Token /\ Values(cache) \subseteq Object

\* The entry that was not used for the longest time is evicted.
LEMMA EvictionMakesRoom ==
    ASSUME MaxItems >= 2, NEW cache, Sized(cache)
    PROVE  LET after == evict(cache)
           IN  /\ IsFiniteSet(Keys(after)) /\ Cardinality(Keys(after)) <= MaxItems - 1
               /\ DOMAIN after.accessed = Keys(after) /\ Keys(after) \subseteq Keys(cache)
               /\ \A k \in Keys(after) : /\ after.accessed[k] = cache.accessed[k]
                                         /\ after.value[k] = cache.value[k]
<1> DEFINE after == evict(cache)
<1>1. /\ MaxItems \in Nat /\ IsFiniteSet(Keys(cache)) /\ Cardinality(Keys(cache)) \in Nat
      /\ Cardinality(Keys(cache)) <= MaxItems /\ DOMAIN cache.accessed = Keys(cache)
      /\ \A k \in Keys(cache) : cache.accessed[k] \in Nat
  BY MaxItemsAssumption, FS_CardinalityType DEF Sized
<1>2. CASE ~Full(cache)
  BY <1>1, <1>2 DEF evict, Full
<1>3. CASE Full(cache)
  <2>1. /\ DOMAIN after.value = Keys(cache) \ Expired(cache)
        /\ DOMAIN after.accessed = Keys(cache) \ Expired(cache)
        /\ \A k \in Keys(after) : /\ after.accessed[k] = cache.accessed[k]
                                  /\ after.value[k] = cache.value[k]
    BY <1>1, <1>3 DEF evict, Without, Keys
  <2>2. PICK k \in Keys(cache) : \A j \in Keys(cache) : cache.accessed[k] <= cache.accessed[j]
    <3> DEFINE S == {cache.accessed[j] : j \in Keys(cache)}
    <3>1. S \in SUBSET Nat
      BY <1>1
    <3>2. Keys(cache) # {}
      BY <1>1, <1>3, FS_EmptySet DEF Full
    <3>3. PICK m \in S : \A i \in S : m <= i
      <4>1. S # {}
        BY <3>2
      <4> HIDE DEF S
      <4>2. QED
        BY <3>1, <4>1, LeastNumber
    <3>4. QED
      BY <3>3
  <2>3. k \in Expired(cache)
    <3>1. {j \in DOMAIN cache.accessed : cache.accessed[j] < cache.accessed[k]} = {}
      BY <1>1, <2>2
    <3>2. 0 < MaxItems \div 2
      BY <1>1
    <3>3. QED
      BY <1>1, <3>1, <3>2, FS_EmptySet DEF Expired
  <2> HIDE DEF after
  <2>4. Keys(after) \subseteq Keys(cache) \ {k} /\ Keys(after) = Keys(cache) \ Expired(cache)
    <3>1. Keys(after) = DOMAIN after.value
      BY DEF Keys
    <3>2. QED
      BY <2>1, <2>3, <3>1
  <2>5. IsFiniteSet(Keys(cache) \ {k}) /\ Cardinality(Keys(cache) \ {k}) <= MaxItems - 1
    <3>1. IsFiniteSet(Keys(cache) \ {k}) /\ Cardinality(Keys(cache) \ {k}) = Cardinality(Keys(cache)) - 1
      BY <1>1, <2>2, FS_RemoveElement
    <3>2. QED
      BY <1>1, <3>1
  <2>6. /\ IsFiniteSet(Keys(after)) /\ Cardinality(Keys(after)) <= Cardinality(Keys(cache) \ {k})
        /\ Cardinality(Keys(after)) \in Nat /\ Cardinality(Keys(cache) \ {k}) \in Nat
    BY <2>4, <2>5, FS_Subset, FS_CardinalityType
  <2>7. Cardinality(Keys(after)) <= MaxItems - 1
    BY <1>1, <2>5, <2>6
  <2>8. QED
    BY <2>1, <2>4, <2>6, <2>7 DEF after
<1>4. QED
  BY <1>2, <1>3

LEMMA InsertIsTyped ==
    ASSUME MaxItems >= 2, NEW cache, Typed(cache), NEW k \in Token, NEW v \in Object, NEW time \in Nat
    PROVE  Typed(insert(cache, k, v, time))
<1> DEFINE e == evict(cache)  d == insert(cache, k, v, time)
<1>1. /\ IsFiniteSet(Keys(e)) /\ Cardinality(Keys(e)) <= MaxItems - 1
      /\ DOMAIN e.accessed = Keys(e) /\ Keys(e) \subseteq Keys(cache)
      /\ \A j \in Keys(e) : e.accessed[j] = cache.accessed[j] /\ e.value[j] = cache.value[j]
  BY EvictionMakesRoom DEF Typed
<1> HIDE DEF e
<1>2. d = [value |-> Assign(e.value, k, v), accessed |-> Assign(e.accessed, k, time)]
  BY DEF insert, e
<1> HIDE DEF d
<1>3. /\ Keys(d) = Keys(e) \cup {k} /\ DOMAIN d.accessed = Keys(d)
      /\ \A j \in Keys(d) : j = k \/ (j \in Keys(e) /\ d.value[j] = e.value[j] /\ d.accessed[j] = e.accessed[j])
      /\ d.value[k] = v /\ d.accessed[k] = time
      /\ d = [value |-> d.value, accessed |-> d.accessed]
  <2>1. DOMAIN e.value = Keys(e)
    BY DEF Keys
  <2>2. DOMAIN Assign(e.value, k, v) = Keys(e) \cup {k} /\ DOMAIN Assign(e.accessed, k, time) = Keys(e) \cup {k}
    BY <1>1, <2>1 DEF Assign
  <2>3. /\ Assign(e.value, k, v)[k] = v /\ Assign(e.accessed, k, time)[k] = time
        /\ \A j \in Keys(e) \ {k} : Assign(e.value, k, v)[j] = e.value[j] /\ Assign(e.accessed, k, time)[j] = e.accessed[j]
    BY <1>1, <2>1 DEF Assign
  <2>4. d.value = Assign(e.value, k, v) /\ d.accessed = Assign(e.accessed, k, time) /\ Keys(d) = DOMAIN d.value
    BY <1>2 DEF Keys
  <2>5. d = [value |-> d.value, accessed |-> d.accessed]
    BY <1>2
  <2>6. QED
    BY <2>2, <2>3, <2>4, <2>5
<1>4. IsFiniteSet(Keys(d)) /\ Cardinality(Keys(d)) <= MaxItems
  <2>1. /\ IsFiniteSet(Keys(e) \cup {k}) /\ Cardinality(Keys(e)) \in Nat
        /\ \/ Cardinality(Keys(e) \cup {k}) = Cardinality(Keys(e))
           \/ Cardinality(Keys(e) \cup {k}) = Cardinality(Keys(e)) + 1
    BY <1>1, FS_AddElement, FS_CardinalityType
  <2>2. QED
    BY <1>1, <1>3, <2>1, MaxItemsAssumption
<1>5. \A j \in Keys(d) : d.accessed[j] \in Nat
  BY <1>1, <1>3 DEF Typed, Sized
<1>6. Keys(d) \subseteq Token
  BY <1>1, <1>3 DEF Typed
<1>7. Values(d) \subseteq Object
  <2>1. ASSUME NEW j \in Keys(d) PROVE d.value[j] \in Object
    <3>1. CASE j = k
      BY <1>3, <3>1
    <3>2. CASE j # k
      BY <1>1, <1>3, <3>2 DEF Typed, Values
    <3>3. QED
      BY <3>1, <3>2
  <2>2. QED
    BY <2>1 DEF Values
<1>8. QED
  BY <1>3, <1>4, <1>5, <1>6, <1>7 DEF Typed, Sized, d

LEMMA TouchIsTyped ==
    ASSUME NEW cache, Typed(cache), NEW k, NEW time \in Nat
    PROVE  Typed(touch(cache, k, time))
<1> DEFINE d == touch(cache, k, time)
<1>1. CASE k \notin Keys(cache)
  BY <1>1 DEF touch
<1>2. CASE k \in Keys(cache)
  <2>1. /\ d = [value |-> d.value, accessed |-> d.accessed] /\ d.value = cache.value
        /\ d.accessed = Assign(cache.accessed, k, time)
    BY <1>2 DEF touch, Typed, Sized
  <2> HIDE DEF d
  <2>2. /\ Keys(d) = Keys(cache) /\ Values(d) = Values(cache) /\ DOMAIN d.accessed = Keys(d)
        /\ \A j \in Keys(d) : d.accessed[j] \in Nat
    BY <1>2, <2>1 DEF Assign, Typed, Sized, Keys, Values
  <2>3. Typed(d)
    BY <2>1, <2>2 DEF Typed, Sized
  <2>4. QED
    BY <2>3 DEF d
<1>3. QED
  BY <1>1, <1>2

\* What a thread is about to store has its type.
ThreadTyped(t) ==
    /\ pc[t] \in {"parse", "found", "obtain", "insertToken", "insertRule", "search"}
    /\ token[t] \in Token \cup {NULL} /\ index[t] \in Index \cup {NULL} /\ held[t] \in Object \cup {NULL}
    /\ sentence[t] \in Seq([token : Token, index : Index])
    /\ pc[t] \in {"found", "obtain", "insertToken", "insertRule"} => token[t] \in Token
    /\ pc[t] \in {"insertToken", "insertRule"} => index[t] \in Index
    /\ pc[t] = "found" => held[t] \in Object

OfThreads ==
    /\ DOMAIN pc = Thread /\ DOMAIN token = Thread /\ DOMAIN index = Thread
    /\ DOMAIN held = Thread /\ DOMAIN sentence = Thread

TypesInv ==
    /\ Typed(SpecialTokens) /\ AvailableWordIndexes \subseteq Index /\ now \in 0..LastTick
    /\ OfThreads /\ \A t \in Thread : ThreadTyped(t)

\* A step of one thread.
LEMMA StepOfThread ==
    ASSUME TypesInv, NEW t \in Thread,
           Typed(SpecialTokens'), AvailableWordIndexes' \subseteq Index, now' \in 0..LastTick,
           OfThreads', ThreadTyped(t)',
           \A u \in Thread \ {t} : /\ pc'[u] = pc[u] /\ token'[u] = token[u] /\ index'[u] = index[u]
                                   /\ held'[u] = held[u] /\ sentence'[u] = sentence[u]
    PROVE  TypesInv'
<1>1. ASSUME NEW u \in Thread PROVE ThreadTyped(u)'
  <2>1. CASE u = t
    BY <2>1
  <2>2. CASE u # t
    BY <2>2 DEF TypesInv, ThreadTyped
  <2>3. QED
    BY <2>1, <2>2
<1>2. QED
  BY <1>1 DEF TypesInv

LEMMA NewObjectIsTyped ==
    ASSUME TypesInv, NEW i \in Index
    PROVE  NewObject(i) \in Object
<1> DEFINE n == Cardinality(Live)  g == [o \in Live |-> o.id]  ids == {g[o] : o \in DOMAIN g}
<1>1. IsFiniteSet(Live)
  <2>1. IsFiniteSet(Values(SpecialTokens))
    BY ImageIs DEF TypesInv, Typed, Sized, Values, Keys
  <2>2. IsFiniteSet({held[t] : t \in Thread})
    BY ImageIs, TokensAssumption DEF TypesInv, OfThreads
  <2>3. IsFiniteSet(HeldBy(Thread))
    BY <2>2, FS_Subset DEF HeldBy
  <2>4. QED
    BY <2>1, <2>3, FS_Union DEF Live
<1>2. n \in Nat
  BY <1>1, FS_CardinalityType
<1>3. IsFiniteSet(ids) /\ Cardinality(ids) <= n
  <2>1. DOMAIN g = Live
    OBVIOUS
  <2> HIDE DEF g
  <2>2. QED
    BY <1>1, <2>1, ImageIs
<1>4. PICK m \in 0..n : m \notin ids
  <2>1. SUFFICES ASSUME 0..n \subseteq ids PROVE FALSE
    OBVIOUS
  <2> HIDE DEF ids, n
  <2>2. Cardinality(0..n) <= Cardinality(ids)
    BY <1>3, <2>1, FS_Subset
  <2>3. Cardinality(0..n) = n + 1
    BY <1>2, FS_Interval
  <2>4. Cardinality(ids) \in Nat
    BY <1>3, FS_CardinalityType
  <2>5. QED
    BY <1>2, <1>3, <2>2, <2>3, <2>4
<1>5. \A o \in Live : o.id # m
  BY <1>4
<1>6. PICK c : c = CHOOSE k \in 0..n : \A o \in Live : o.id # k
  OBVIOUS
<1>7. c \in 0..n
  BY <1>5, <1>6
<1>8. NewObject(i) = [id |-> c, index |-> i]
  BY <1>6 DEF NewObject
<1>9. QED
  BY <1>2, <1>7, <1>8 DEF Object

LEMMA TimeIs ==
    ASSUME TypesInv
    PROVE  currentTime \in Nat /\ now \in Nat /\ now <= LastTick
BY TokensAssumption DEF TypesInv, currentTime

\* Free indexes come from objects.
LEMMA RemovalIsTyped ==
    ASSUME TypesInv, NEW objects \in SUBSET Object, removeWordIndexes(objects)
    PROVE  AvailableWordIndexes' \subseteq Index
<1>1. \A o \in objects : o.index \in Index
  BY DEF Object
<1>2. QED
  BY <1>1 DEF removeWordIndexes, TypesInv

LEMMA AppendIsTyped ==
    ASSUME TypesInv, NEW t \in Thread, NEW k \in Token, NEW i \in Index
    PROVE  Append(sentence[t], [token |-> k, index |-> i]) \in Seq([token : Token, index : Index])
<1>1. sentence[t] \in Seq([token : Token, index : Index])
  BY DEF TypesInv, ThreadTyped
<1>2. QED
  BY <1>1

LEMMA GetIsTyped ==
    ASSUME TypesInv, NEW t \in Thread, NEW k \in Token, Get(t, k)
    PROVE  TypesInv'
<1>1. Typed(SpecialTokens')
  BY TouchIsTyped, TimeIs DEF Get, TypesInv
<1>2. /\ pc[t] = "parse" /\ token' = [token EXCEPT ![t] = k]
      /\ \/ /\ k \in Keys(SpecialTokens) /\ pc' = [pc EXCEPT ![t] = "found"]
            /\ held' = [held EXCEPT ![t] = SpecialTokens.value[k]]
         \/ pc' = [pc EXCEPT ![t] = "obtain"] /\ UNCHANGED held
      /\ UNCHANGED <<HandledSpecialTokens, AvailableWordIndexes, now, index, sentence>>
  BY DEF Get, Goto
<1>3. k \in Keys(SpecialTokens) => SpecialTokens.value[k] \in Object
  BY DEF TypesInv, Typed, Values
<1>4. /\ OfThreads'
      /\ \A u \in Thread \ {t} : /\ pc'[u] = pc[u] /\ token'[u] = token[u] /\ index'[u] = index[u]
                                 /\ held'[u] = held[u] /\ sentence'[u] = sentence[u]
  BY <1>2 DEF TypesInv, OfThreads
<1>5. ThreadTyped(t)'
  <2>1. /\ token'[t] = k /\ index'[t] = index[t] /\ sentence'[t] = sentence[t]
        /\ \/ pc'[t] = "found" /\ held'[t] = SpecialTokens.value[k] /\ k \in Keys(SpecialTokens)
           \/ pc'[t] = "obtain" /\ held'[t] = held[t]
    BY <1>2 DEF TypesInv, OfThreads
  <2>2. ThreadTyped(t)
    BY DEF TypesInv
  <2>3. QED
    BY <1>3, <2>1, <2>2 DEF ThreadTyped
<1>6. AvailableWordIndexes' \subseteq Index /\ now' \in 0..LastTick
  BY <1>2 DEF TypesInv
<1>7. QED
  BY <1>1, <1>4, <1>5, <1>6, StepOfThread

LEMMA FoundIsTyped ==
    ASSUME TypesInv, NEW t \in Thread, Found(t)
    PROVE  TypesInv'
<1>1. /\ pc[t] = "found" /\ pc' = [pc EXCEPT ![t] = "parse"] /\ index' = [index EXCEPT ![t] = held[t].index]
      /\ held' = [held EXCEPT ![t] = NULL]
      /\ sentence' = [sentence EXCEPT ![t] = Append(@, [token |-> token[t], index |-> index'[t]])]
      /\ UNCHANGED <<SpecialTokens, now, token>>
  BY DEF Found, Goto, Sentence
<1>2. held[t] \in Object /\ token[t] \in Token /\ held[t].index \in Index
  BY <1>1 DEF TypesInv, ThreadTyped, Object
<1>3. AvailableWordIndexes' \subseteq Index
  BY <1>2, RemovalIsTyped DEF Found
<1>4. index'[t] = held[t].index
  BY <1>1 DEF TypesInv, OfThreads
<1>5. Append(sentence[t], [token |-> token[t], index |-> index'[t]]) \in Seq([token : Token, index : Index])
  BY <1>2, <1>4, AppendIsTyped
<1>6. OfThreads' /\ ThreadTyped(t)'
  BY <1>1, <1>2, <1>5 DEF TypesInv, OfThreads, ThreadTyped
<1>7. QED
  BY <1>1, <1>3, <1>6, StepOfThread DEF TypesInv

LEMMA ObtainIsTyped ==
    ASSUME TypesInv, NEW t \in Thread, Obtain(t)
    PROVE  TypesInv'
<1>1. /\ pc[t] = "obtain" /\ pc' = [pc EXCEPT ![t] = "insertToken"]
      /\ UNCHANGED <<SpecialTokens, HandledSpecialTokens, now, token, held, sentence>>
  BY DEF Obtain, Goto
<1>2. PICK i \in IF token[t] \in InVocabulary THEN {VocabIndex[token[t]]} ELSE obtainWordIndex :
          index' = [index EXCEPT ![t] = i] /\ AvailableWordIndexes' = AvailableWordIndexes \ {i}
  BY DEF Obtain
<1>3. i \in Index
  <2>1. MaxItems \in Nat /\ WordIndexOffset \in Nat
    BY MaxItemsAssumption, TokensAssumption
  <2>2. CASE token[t] \in InVocabulary
    <3>1. i \in 0..WordIndexOffset-1
      BY <1>2, <2>2, TokensAssumption
    <3>2. QED
      BY <2>1, <3>1 DEF Index
  <2>3. CASE i \in AvailableWordIndexes
    BY <2>3 DEF TypesInv
  <2>4. CASE i = WordIndexOffset + Cardinality(Keys(SpecialTokens))
    <3>1. Cardinality(Keys(SpecialTokens)) \in Nat /\ Cardinality(Keys(SpecialTokens)) <= MaxItems
      BY FS_CardinalityType DEF TypesInv, Typed, Sized
    <3>2. QED
      BY <2>1, <2>4, <3>1 DEF Index
  <2>5. QED
    BY <1>2, <2>2, <2>3, <2>4 DEF obtainWordIndex
<1>4. OfThreads' /\ ThreadTyped(t)'
  BY <1>1, <1>2, <1>3 DEF TypesInv, OfThreads, ThreadTyped
<1>5. AvailableWordIndexes' \subseteq Index
  BY <1>2 DEF TypesInv
<1>6. QED
  BY <1>1, <1>2, <1>4, <1>5, StepOfThread DEF TypesInv

LEMMA InsertTokenIsTyped ==
    ASSUME MaxItems >= 2, TypesInv, NEW t \in Thread, InsertToken(t)
    PROVE  TypesInv'
<1>1. /\ pc[t] = "insertToken" /\ pc' = [pc EXCEPT ![t] = "insertRule"]
      /\ SpecialTokens' = insert(SpecialTokens, token[t], NewObject(index[t]), currentTime)
      /\ removeWordIndexes(Values(SpecialTokens) \ (Values(SpecialTokens') \cup HeldBy(Thread)))
      /\ UNCHANGED <<now, token, index, held, sentence>>
  BY DEF InsertToken, Goto
<1>2. token[t] \in Token /\ index[t] \in Index
  BY <1>1 DEF TypesInv, ThreadTyped
<1>3. Typed(SpecialTokens')
  BY <1>1, <1>2, NewObjectIsTyped, InsertIsTyped, TimeIs DEF TypesInv
<1>4. AvailableWordIndexes' \subseteq Index
  <2>1. Values(SpecialTokens) \subseteq Object
    BY DEF TypesInv, Typed
  <2>2. QED
    BY <1>1, <2>1, RemovalIsTyped
<1>5. OfThreads' /\ ThreadTyped(t)'
  BY <1>1, <1>2 DEF TypesInv, OfThreads, ThreadTyped
<1>6. QED
  BY <1>1, <1>3, <1>4, <1>5, StepOfThread DEF TypesInv

LEMMA InsertRuleIsTyped ==
    ASSUME TypesInv, NEW t \in Thread, insertRuleNode(t)
    PROVE  TypesInv'
<1>1. /\ pc[t] = "insertRule" /\ pc' = [pc EXCEPT ![t] = "parse"]
      /\ sentence' = [sentence EXCEPT ![t] = Append(@, [token |-> token[t], index |-> index[t]])]
      /\ UNCHANGED <<SpecialTokens, AvailableWordIndexes, now, held, token, index>>
  BY DEF insertRuleNode, Goto, Sentence
<1>2. Append(sentence[t], [token |-> token[t], index |-> index[t]]) \in Seq([token : Token, index : Index])
  BY <1>1, AppendIsTyped DEF TypesInv, ThreadTyped
<1>3. OfThreads' /\ ThreadTyped(t)'
  BY <1>1, <1>2 DEF TypesInv, OfThreads, ThreadTyped
<1>4. QED
  BY <1>1, <1>3, StepOfThread DEF TypesInv

LEMMA SearchIsTyped ==
    ASSUME TypesInv, NEW t \in Thread, EndOfSentence(t) \/ LookUp(t) \/ Translated(t)
    PROVE  TypesInv'
<1>1. UNCHANGED <<SpecialTokens, AvailableWordIndexes, held>>
  BY DEF EndOfSentence, LookUp, Translated, registry
<1>2. now' \in 0..LastTick
  BY TokensAssumption DEF TypesInv, EndOfSentence, LookUp, Translated
<1>3. /\ OfThreads'
      /\ \A u \in Thread \ {t} : /\ pc'[u] = pc[u] /\ token'[u] = token[u] /\ index'[u] = index[u]
                                 /\ held'[u] = held[u] /\ sentence'[u] = sentence[u]
  BY <1>1 DEF TypesInv, OfThreads, EndOfSentence, LookUp, Translated, Goto
<1>4. CASE EndOfSentence(t)
  <2>1. ThreadTyped(t)'
    BY <1>4 DEF TypesInv, OfThreads, ThreadTyped, EndOfSentence, Goto, registry
  <2>2. QED
    BY <1>1, <1>2, <1>3, <2>1, StepOfThread DEF TypesInv
<1>5. CASE LookUp(t)
  <2>1. \A R, q : q \in Seq(R) /\ q # << >> => Tail(q) \in Seq(R)
    OBVIOUS
  <2>2. ThreadTyped(t)'
    BY <1>5, <2>1 DEF TypesInv, OfThreads, ThreadTyped, LookUp, registry
  <2>3. QED
    BY <1>1, <1>2, <1>3, <2>2, StepOfThread DEF TypesInv
<1>6. CASE Translated(t)
  <2>1. ThreadTyped(t)'
    BY <1>6 DEF TypesInv, OfThreads, ThreadTyped, Translated, Goto, registry
  <2>2. QED
    BY <1>1, <1>2, <1>3, <2>1, StepOfThread DEF TypesInv
<1>7. QED
  BY <1>4, <1>5, <1>6

LEMMA InitTypes ==
    ASSUME Init
    PROVE  TypesInv
<1>1. SpecialTokens = [value |-> << >>, accessed |-> << >>] /\ Keys(SpecialTokens) = {}
  BY DEF Init, EmptyCache, Keys
<1>2. Typed(SpecialTokens)
  BY <1>1, FS_EmptySet, MaxItemsAssumption DEF Typed, Sized, Values
<1>3. << >> \in Seq([token : Token, index : Index])
  OBVIOUS
<1>4. QED
  BY <1>2, <1>3, TokensAssumption DEF Init, TypesInv, OfThreads, ThreadTyped

LEMMA NextTypes ==
    ASSUME MaxItems >= 2, TypesInv, [Next]_vars
    PROVE  TypesInv'
<1>1. CASE Tick \/ UNCHANGED vars
  <2>1. /\ UNCHANGED <<SpecialTokens, AvailableWordIndexes, pc, token, index, held, sentence>>
        /\ now' \in 0..LastTick
    BY <1>1, TokensAssumption DEF TypesInv, Tick, vars, registry
  <2>2. QED
    BY <2>1 DEF TypesInv, OfThreads, ThreadTyped
<1>2. QED
  BY <1>1, GetIsTyped, FoundIsTyped, ObtainIsTyped, InsertTokenIsTyped, InsertRuleIsTyped,
     SearchIsTyped DEF Next, ClockStops

\* However many words are unknown, and whatever the threads do in between, no index is
\* further above the vocabulary than the cache is large: indexes do not run into the
\* limit of WordIndex_t.  A cache of one entry never evicts and so has no bound.
THEOREM IndexesAreBounded ==
    ASSUME MaxItems >= 2
    PROVE  Spec => []TypeOK
<1>1. Init => TypesInv
  BY InitTypes
<1>2. TypesInv /\ [Next]_vars => TypesInv'
  BY NextTypes
<1>3. TypesInv => TypeOK
  BY DEF TypesInv, Typed, Sized, OfThreads, ThreadTyped, TypeOK
<1>4. QED
  BY <1>1, <1>2, <1>3, PTL DEF Spec

-----------------------------------------------------------------------------
(* What an insertion evicts.                                                  *)

\* A full cache drops none of the entries used since some moment, if they are at most
\* what it keeps: as many as half of it are older.
LEMMA EvictionSparesRecent ==
    ASSUME NEW cache, Sized(cache), Full(cache), NEW s \in Nat, NEW R \in SUBSET Keys(cache),
           \A k \in Keys(cache) : k \in R <=> cache.accessed[k] >= s,
           Cardinality(R) <= MaxItems - MaxItems \div 2
    PROVE  R \cap Expired(cache) = {}
<1>1. /\ IsFiniteSet(Keys(cache)) /\ Cardinality(Keys(cache)) = MaxItems /\ MaxItems \in Nat
      /\ DOMAIN cache.accessed = Keys(cache) /\ \A k \in Keys(cache) : cache.accessed[k] \in Nat
  <2>1. IsFiniteSet(Keys(cache)) /\ Cardinality(Keys(cache)) \in Nat /\ MaxItems \in Nat
    BY FS_CardinalityType, MaxItemsAssumption DEF Sized
  <2>2. QED
    BY <2>1 DEF Sized, Full
<1>2. IsFiniteSet(R) /\ Cardinality(R) \in Nat
  BY <1>1, FS_Subset, FS_CardinalityType
<1>3. IsFiniteSet(Keys(cache) \ R) /\ Cardinality(Keys(cache) \ R) = MaxItems - Cardinality(R)
  <2>1. IsFiniteSet(Keys(cache) \ R)
        /\ Cardinality(Keys(cache) \ R) = Cardinality(Keys(cache)) - Cardinality(Keys(cache) \cap R)
    BY <1>1, FS_Difference
  <2>2. Keys(cache) \cap R = R
    OBVIOUS
  <2>3. QED
    BY <1>1, <2>1, <2>2
<1>4. SUFFICES ASSUME NEW k \in R, k \in Expired(cache) PROVE FALSE
  OBVIOUS
<1> DEFINE older == {j \in DOMAIN cache.accessed : cache.accessed[j] < cache.accessed[k]}
<1>5. Keys(cache) \ R \subseteq older /\ older \subseteq Keys(cache)
  <2>1. ASSUME NEW j \in Keys(cache) \ R PROVE cache.accessed[j] < cache.accessed[k]
    <3>1. cache.accessed[j] \in Nat /\ cache.accessed[k] \in Nat /\ cache.accessed[k] >= s
          /\ ~(cache.accessed[j] >= s)
      BY <1>1
    <3>2. QED
      BY <3>1
  <2>2. QED
    BY <1>1, <2>1
<1>6. Cardinality(older) < MaxItems \div 2
  BY <1>4 DEF Expired
<1> HIDE DEF older
<1>7. Cardinality(older) \in Nat /\ Cardinality(Keys(cache) \ R) <= Cardinality(older)
  <2>1. IsFiniteSet(older)
    BY <1>1, <1>5, FS_Subset
  <2>2. QED
    BY <1>5, <2>1, FS_Subset, FS_CardinalityType
<1>8. MaxItems \div 2 \in Nat
  BY <1>1
<1>9. QED
  BY <1>1, <1>2, <1>3, <1>6, <1>7, <1>8

LEMMA InsertSetsTime ==
    ASSUME NEW cache, Sized(cache), NEW k, NEW v, NEW time
    PROVE  LET after == insert(cache, k, v, time)
           IN  /\ after.accessed[k] = time
               /\ \A j \in Keys(after) \ {k} : after.accessed[j] = cache.accessed[j]
               /\ \A j \in Keys(cache) : j \in Keys(after) \/ (Full(cache) /\ j \in Expired(cache))
<1> DEFINE e == evict(cache)  d == insert(cache, k, v, time)
<1>1. DOMAIN cache.accessed = DOMAIN cache.value /\ Keys(cache) = DOMAIN cache.value
  BY DEF Sized, Keys
<1>2. /\ DOMAIN e.accessed = DOMAIN e.value
      /\ DOMAIN e.value \subseteq DOMAIN cache.value
      /\ \A j \in DOMAIN e.value : e.accessed[j] = cache.accessed[j]
      /\ \A j \in DOMAIN cache.value : j \in DOMAIN e.value \/ (Full(cache) /\ j \in Expired(cache))
  <2>1. CASE Full(cache)
    BY <1>1, <2>1 DEF evict, Without
  <2>2. CASE ~Full(cache)
    BY <1>1, <2>2 DEF evict
  <2>3. QED
    BY <2>1, <2>2
<1> HIDE DEF e
<1>3. d.value = Assign(e.value, k, v) /\ d.accessed = Assign(e.accessed, k, time) /\ Keys(d) = DOMAIN d.value
  BY DEF insert, e, Keys
<1> HIDE DEF d
<1>4. Keys(d) = DOMAIN e.value \cup {k}
  BY <1>3 DEF Assign
<1>5. d.accessed[k] = time /\ \A j \in Keys(d) \ {k} : d.accessed[j] = e.accessed[j]
  BY <1>2, <1>3, <1>4 DEF Assign
<1>6. QED
  BY <1>1, <1>2, <1>4, <1>5 DEF d

\* An insertion into a full cache keeps the entries that were used since some moment
\* with their values, if they are no more than the half that is kept
\* (tmplBoundedCache::insert).  Whichever threads used them, and whatever the clock
\* did: a clock that went back makes the entries of before the newest.
THEOREM RecentEntriesAreKept ==
    ASSUME NEW cache, Sized(cache), NEW k, NEW v, NEW time, NEW s \in Nat,
           Cardinality({j \in Keys(cache) : cache.accessed[j] >= s}) <= MaxItems - MaxItems \div 2
    PROVE  \A j \in Keys(cache) \ {k} : cache.accessed[j] >= s =>
              LET after == insert(cache, k, v, time)
              IN  j \in Keys(after) /\ after.value[j] = cache.value[j] /\ after.accessed[j] = cache.accessed[j]
<1> DEFINE R == {j \in Keys(cache) : cache.accessed[j] >= s}
           d == insert(cache, k, v, time)
<1>1. R \in SUBSET Keys(cache) /\ \A j \in Keys(cache) : j \in R <=> cache.accessed[j] >= s
  OBVIOUS
<1>2. Full(cache) => R \cap Expired(cache) = {}
  <2> HIDE DEF R
  <2>1. Cardinality(R) <= MaxItems - MaxItems \div 2
    BY DEF R
  <2>2. QED
    BY <1>1, <2>1, EvictionSparesRecent
<1>3. /\ \A j \in Keys(d) \ {k} : d.accessed[j] = cache.accessed[j]
      /\ \A j \in Keys(cache) : j \in Keys(d) \/ (Full(cache) /\ j \in Expired(cache))
  BY InsertSetsTime
<1>4. \A j \in Keys(d) \ {k} : d.value[j] = cache.value[j]
  BY InsertKeepsOrDrops
<1> HIDE DEF d
<1>5. \A j \in R \ {k} : j \in Keys(d) /\ d.value[j] = cache.value[j] /\ d.accessed[j] = cache.accessed[j]
  BY <1>1, <1>2, <1>3, <1>4
<1>6. QED
  BY <1>1, <1>5 DEF d

=============================================================================
