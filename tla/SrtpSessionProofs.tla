-------------------------- MODULE SrtpSessionProofs --------------------------
(***************************************************************************)
(* Proofs about the session model: every reachable state is well typed,   *)
(* and no stream or template still in a session holds zeroed key         *)
(* material.                                                               *)
(***************************************************************************)
EXTENDS SrtpSession, SrtpIndexProofs, FiniteSetTheorems, TLAPS

USE SeqSpaceAssumption, RocSpaceAssumption, SessionAssumption

(***************************************************************************)
(* Policy lists and the keys create hands out.                            *)
(***************************************************************************)

\* A list given as a function on 1..n has length n.
LEMMA FunLen ==
    ASSUME NEW S, NEW n \in Nat, NEW f \in [1 .. n -> S]
    PROVE  Len(f) = n /\ f \in Seq(S)
BY SMT

\* The key create gives to a listed selector is one of the Len(pl) keys
\* from nextKey on.
LEMMA EntryKeyRange ==
    ASSUME NEW n \in Nat, NEW pl \in [1 .. n -> Selectors],
           NEW sel, Listed(pl, sel), nextKey \in Int
    PROVE  EntryKey(pl, sel) \in nextKey .. (nextKey + n - 1)
<1> DEFINE j == CHOOSE j \in DOMAIN pl : pl[j] = sel
<1>1. j \in 1 .. n
  BY DEF Listed
<1>2. QED
  BY <1>1, SMT DEF EntryKey

\* Two listed selectors receive different keys.
LEMMA EntryKeyInjective ==
    ASSUME NEW n \in Nat, NEW pl \in [1 .. n -> Selectors],
           NEW a, NEW b, a # b, Listed(pl, a), Listed(pl, b), nextKey \in Int
    PROVE  EntryKey(pl, a) # EntryKey(pl, b)
<1> DEFINE ja == CHOOSE j \in DOMAIN pl : pl[j] = a
           jb == CHOOSE j \in DOMAIN pl : pl[j] = b
<1>1. ja \in 1 .. n /\ pl[ja] = a
  BY DEF Listed
<1>2. jb \in 1 .. n /\ pl[jb] = b
  BY DEF Listed
<1>3. ja # jb
  BY <1>1, <1>2
<1>4. QED
  BY <1>1, <1>2, <1>3, SMT DEF EntryKey

(***************************************************************************)
(* Stream records: resolution, binding and advancing keep them typed, and *)
(* never change the key a stream holds or whether it is a clone.          *)
(***************************************************************************)

LEMMA NoStreamTyped == NoStream \in StreamRecs
BY ZeroIndex DEF NoStream, StreamRecs, NoKey

LEMMA ResolveTyped ==
    ASSUME TypeOK, NEW x \in Ssrcs, NEW d \in Dirs
    PROVE  Resolve(x, d) \in StreamRecs
<1>1. WildOf(d) \in Wild
  BY DEF WildOf, Wild
<1>2. QED
  BY <1>1, NoStreamTyped
     DEF TypeOK, Resolve, Clone, NoStream, StreamRecs, Dirs, NoKey

LEMMA BindTyped ==
    ASSUME NEW st \in StreamRecs, NEW d \in Dirs
    PROVE  /\ Bind(st, d) \in StreamRecs
           /\ Bind(st, d).key = st.key
           /\ Bind(st, d).cloned = st.cloned
BY DEF Bind, StreamRecs, Dirs

LEMMA IndexTyped ==
    ASSUME NEW st \in StreamRecs, NEW q \in 0 .. (SeqSpace - 1)
    PROVE  Index(st, q) \in Indices
BY SeqInIndices, EstimateInIndices DEF Index, StreamRecs

LEMMA AdvanceTyped ==
    ASSUME NEW st \in StreamRecs, NEW i \in Indices
    PROVE  /\ Advance(st, i) \in StreamRecs
           /\ Advance(st, i).key = st.key
           /\ Advance(st, i).cloned = st.cloned
<1>1. ReplayHigh(st.hi, i) \in Indices /\ ReplaySeen(st.hi, st.seen, i) \in SUBSET Indices
  BY ReplayUpdateTyped DEF StreamRecs
<1>2. QED
  BY <1>1 DEF Advance, StreamRecs

\* A call that succeeds found its key under the hard limit.
LEMMA CallResultOk ==
    ASSUME NEW st, NEW i, NEW auth, CallResult(st, i, auth) = "ok",
           used[st.key] \in Int
    PROVE  used[st.key] < KeyLimit
<1>1. ~(used[st.key] >= KeyLimit)
  BY DEF CallResult, Expired
<1>2. QED
  BY <1>1, SMT

\* A call that succeeds had an authentic packet.
LEMMA CallResultAuth ==
    ASSUME NEW st, NEW i, NEW auth \in BOOLEAN, CallResult(st, i, auth) = "ok"
    PROVE  auth
BY DEF CallResult

LEMMA CallResultTyped ==
    ASSUME NEW st, NEW i, NEW auth
    PROVE  CallResult(st, i, auth) \in Results
BY DEF CallResult, Results

(***************************************************************************)
(* Type correctness.                                                       *)
(***************************************************************************)

\* The stream a call resolves and binds, and the index it computes, are
\* well typed, and so is the stream it leaves behind.
LEMMA StreamStepTyped ==
    ASSUME TypeOK, NEW x \in Ssrcs, NEW d \in Dirs, NEW q \in 0 .. (SeqSpace - 1)
    PROVE  LET st == Bind(Resolve(x, d), d)
           IN  /\ st \in StreamRecs
               /\ Index(st, q) \in Indices
               /\ Advance(st, Index(st, q)) \in StreamRecs
<1>1. Resolve(x, d) \in StreamRecs
  BY ResolveTyped
<1>2. Bind(Resolve(x, d), d) \in StreamRecs
  BY <1>1, BindTyped
<1>3. Index(Bind(Resolve(x, d), d), q) \in Indices
  BY <1>2, IndexTyped
<1>4. QED
  BY <1>2, <1>3, AdvanceTyped

\* Every step of a session, from a well-typed state, leads to one.
LEMMA TypeStep == TypeOK /\ [Next]_vars => TypeOK'
  <2> SUFFICES ASSUME TypeOK, [Next]_vars PROVE TypeOK'
    OBVIOUS
  <2>1. ASSUME NEW pl \in PolicyLists, Create(pl) PROVE TypeOK'
    <3>1. PICK n \in 0 .. MaxPolicies : pl \in [1 .. n -> Selectors]
      BY DEF PolicyLists
    <3>2. Len(pl) = n
      BY <3>1, FunLen
    <3>3. CASE KeyAvailable(Len(pl)) /\ sess' = "live"
      <4>1. ASSUME NEW sel, Listed(pl, sel) PROVE EntryKey(pl, sel) \in KeyIds
        <5>1. EntryKey(pl, sel) \in nextKey .. (nextKey + n - 1)
          BY <3>1, <4>1, EntryKeyRange DEF TypeOK
        <5>2. QED
          BY <3>2, <3>3, <5>1, SMT DEF KeyAvailable, KeyIds, TypeOK
      <4>2. tmpl' \in [Wild -> KeyIds \cup {NoKey}]
        BY <2>1, <3>3, <4>1 DEF Create
      <4>3. strm' \in [Ssrcs -> StreamRecs]
        <5>1. ASSUME NEW x \in Ssrcs, Listed(pl, x)
              PROVE  [NoStream EXCEPT !.key = EntryKey(pl, x)] \in StreamRecs
          BY <4>1, <5>1, ZeroIndex DEF NoStream, StreamRecs, NoKey
        <5>2. QED
          BY <2>1, <3>3, <5>1, NoStreamTyped DEF Create
      <4>4. nextKey' \in 1 .. (MaxKeys + 1)
        BY <2>1, <3>2, <3>3, SMT DEF Create, KeyAvailable, TypeOK
      <4>5. QED
        BY <2>1, <3>3, <4>2, <4>3, <4>4 DEF Create, TypeOK, Results
    <3>4. CASE ~(KeyAvailable(Len(pl)) /\ sess' = "live")
      BY <2>1, <3>4 DEF Create, TypeOK, Results
    <3>5. QED
      BY <3>3, <3>4
  <2>2. ASSUME NEW sel \in Selectors, AddStream(sel) PROVE TypeOK'
    <3>1. nextKey \in KeyIds => [NoStream EXCEPT !.key = nextKey] \in StreamRecs
      BY NoStreamTyped DEF NoStream, StreamRecs
    <3>2. KeyAvailable(1) => nextKey \in KeyIds /\ nextKey + 1 \in 1 .. (MaxKeys + 1)
      BY SMT DEF KeyAvailable, KeyIds, TypeOK
    <3>3. QED
      BY <2>2, <3>1, <3>2 DEF AddStream, TypeOK, Results
  <2>3. ASSUME NEW x \in Ssrcs, RemoveStream(x) PROVE TypeOK'
    BY <2>3, NoStreamTyped DEF RemoveStream, OwnedKeys, TypeOK, StreamRecs, Results
  <2>4. CASE Dealloc
    BY <2>4, NoStreamTyped DEF Dealloc, HeldKeys, TypeOK, StreamRecs, Results
  <2>5. ASSUME NEW x \in Ssrcs, NEW q \in 0 .. (SeqSpace - 1), Protect(x, q)
        PROVE  TypeOK'
    <3> DEFINE st == Bind(Resolve(x, "out"), "out")
               i  == Index(st, q)
               r  == CallResult(st, i, TRUE)
    <3>1. st \in StreamRecs /\ i \in Indices /\ Advance(st, i) \in StreamRecs
      BY StreamStepTyped DEF Dirs
    <3>2. r \in Results
      BY CallResultTyped
    <3>3. CASE st.key # NoKey /\ r = "ok"
      <4>1. st.key \in KeyIds
        BY <3>1, <3>3 DEF StreamRecs, NoKey
      <4>2. used[st.key] + 1 \in 0 .. KeyLimit
        <5>1. used[st.key] \in 0 .. KeyLimit
          BY <4>1 DEF TypeOK
        <5>2. used[st.key] < KeyLimit
          BY <3>3, <5>1, SMT DEF CallResult, Expired
        <5>3. QED
          BY <5>1, <5>2, SMT
      <4>3. strm' \in [Ssrcs -> StreamRecs]
        BY <2>5, <3>1, <3>3 DEF Protect, TypeOK
      <4>4. used' \in [KeyIds -> 0 .. KeyLimit]
        BY <2>5, <3>3, <4>1, <4>2 DEF Protect, TypeOK
      <4>5. sent' \subseteq WirePackets
        <5>1. <<x, st.key, i>> \in WirePackets
          BY <3>1, <4>1 DEF WirePackets
        <5>2. sent' = sent \cup {<<x, st.key, i>>}
          BY <2>5, <3>3 DEF Protect
        <5>3. QED
          BY <5>1, <5>2 DEF TypeOK
      <4>6. collisions' \subseteq Ssrcs
        BY <2>5, <3>3 DEF Protect, TypeOK, CollisionsAfter
      <4>7. QED
        BY <2>5, <3>3, <4>3, <4>4, <4>5, <4>6 DEF Protect, TypeOK, Results
    <3>4. CASE ~(st.key # NoKey /\ r = "ok")
      BY <2>5, <3>1, <3>2, <3>4 DEF Protect, TypeOK, Results, CollisionsAfter
    <3>5. QED
      BY <3>3, <3>4
  <2>6. ASSUME NEW p \in WirePackets, Unprotect(p) PROVE TypeOK'
    <3> DEFINE x  == p[1]
               st == Bind(Resolve(x, "in"), "in")
               i  == Index(st, SeqOf(p[3]))
               r  == CallResult(st, i, p[2] = st.key /\ p[3] = i)
    <3>1. x \in Ssrcs /\ p[3] \in Indices
      BY DEF WirePackets
    <3>2. SeqOf(p[3]) \in 0 .. (SeqSpace - 1)
      BY <3>1, RocSeqInRange
    <3>3. st \in StreamRecs /\ i \in Indices /\ Advance(st, i) \in StreamRecs
      BY <3>1, <3>2, StreamStepTyped DEF Dirs
    <3>4. r \in Results
      BY CallResultTyped
    <3>5. CASE st.key # NoKey /\ r = "ok"
      <4>1. st.key \in KeyIds
        BY <3>3, <3>5 DEF StreamRecs, NoKey
      <4>2. used[st.key] + 1 \in 0 .. KeyLimit
        <5>1. used[st.key] \in 0 .. KeyLimit
          BY <4>1 DEF TypeOK
        <5>2. used[st.key] < KeyLimit
          BY <3>5, <5>1, CallResultOk
        <5>3. QED
          BY <5>1, <5>2, SMT
      <4>3. p[2] = st.key /\ p[3] = i
        BY <3>5, CallResultAuth
      <4>4. p \in Ssrcs \X KeyIds \X Indices
        BY <3>1, <4>1, <4>3 DEF WirePackets
      <4>5. acc' \in [Ssrcs \X KeyIds \X Indices -> 0 .. 2]
        <5>1. acc[p] \in 0 .. 2
          BY <4>4 DEF TypeOK
        <5>2. (IF acc[p] < 2 THEN acc[p] + 1 ELSE 2) \in 0 .. 2
          BY <5>1, SMT
        <5>3. QED
          BY <2>6, <3>5, <5>2 DEF Unprotect, TypeOK
      <4>6. strm' \in [Ssrcs -> StreamRecs]
        BY <2>6, <3>1, <3>3, <3>5 DEF Unprotect, TypeOK
      <4>7. used' \in [KeyIds -> 0 .. KeyLimit]
        BY <2>6, <3>5, <4>1, <4>2 DEF Unprotect, TypeOK
      <4>8. collisions' \subseteq Ssrcs
        BY <2>6, <3>1, <3>5 DEF Unprotect, TypeOK, CollisionsAfter
      <4>9. QED
        BY <2>6, <3>5, <4>5, <4>6, <4>7, <4>8 DEF Unprotect, TypeOK, Results
    <3>6. CASE ~(st.key # NoKey /\ r = "ok")
      BY <2>6, <3>1, <3>3, <3>4, <3>6 DEF Unprotect, TypeOK, Results, CollisionsAfter
    <3>7. QED
      BY <3>5, <3>6
  <2>7. CASE UNCHANGED vars
    BY <2>7 DEF vars, TypeOK
  <2>8. QED
    BY <2>1, <2>2, <2>3, <2>4, <2>5, <2>6, <2>7 DEF Next

LEMMA TypeInit == Init => TypeOK
BY NoStreamTyped, ZeroIndex DEF Init, TypeOK, Results, KeyIds

\* Every reachable state of a session is well typed.
THEOREM SessionTypeCorrect == Spec => []TypeOK
BY TypeInit, TypeStep, PTL DEF Spec
(***************************************************************************)
(* Key material.  KeysIntact is not inductive by itself: removing a       *)
(* stream zeroes its key, which is safe only if no other stream or        *)
(* template holds that key, and a new key is safe only if it was never     *)
(* zeroed.  The strengthening records how keys are handed out and shared.  *)
(***************************************************************************)

\* Outside a live session no stream or template holds a key.
SessionEmpty ==
    sess # "live" =>
        /\ \A x \in Ssrcs : strm[x].key = NoKey
        /\ \A w \in Wild : tmpl[w] = NoKey

\* Every key held or zeroed was handed out by the allocator already.
KeysAllocated ==
    /\ \A x \in Ssrcs : strm[x].key # NoKey => strm[x].key < nextKey
    /\ \A w \in Wild : tmpl[w] # NoKey => tmpl[w] < nextKey
    /\ \A k \in zeroed : k < nextKey

\* A stream that owns its key shares it with no other stream or template.
OwnedKeyUnique ==
    \A x \in Ssrcs :
        strm[x].key # NoKey /\ ~strm[x].cloned =>
            /\ \A y \in Ssrcs \ {x} : strm[y].key # strm[x].key
            /\ \A w \in Wild : tmpl[w] # strm[x].key

\* A cloned stream holds the key of a template still in the session.
ClonedKeyShared ==
    \A x \in Ssrcs :
        strm[x].key # NoKey /\ strm[x].cloned =>
            \E w \in Wild : tmpl[w] = strm[x].key

KeysInv ==
    /\ TypeOK
    /\ SessionEmpty
    /\ KeysAllocated
    /\ OwnedKeyUnique
    /\ ClonedKeyShared
    /\ KeysIntact
\* The stream a call works on is the SSRC's own stream, or a fresh clone
\* of the template for the call's direction.
LEMMA ResolveKey ==
    ASSUME TypeOK, NEW x \in Ssrcs, NEW d \in Dirs,
           Bind(Resolve(x, d), d).key # NoKey
    PROVE  LET st == Bind(Resolve(x, d), d)
           IN  \/ /\ st.key = strm[x].key
                  /\ st.cloned = strm[x].cloned
               \/ /\ st.cloned
                  /\ \E w \in Wild : st.key = tmpl[w]
<1>1. Resolve(x, d) \in StreamRecs
  BY ResolveTyped
<1>2. Bind(Resolve(x, d), d).key = Resolve(x, d).key
      /\ Bind(Resolve(x, d), d).cloned = Resolve(x, d).cloned
  BY <1>1, BindTyped
<1>3. WildOf(d) \in Wild
  BY DEF WildOf, Wild
<1>4. Resolve(x, d).key # NoKey
  BY <1>2
<1>5. CASE strm[x].key # NoKey
  BY <1>2, <1>5 DEF Resolve
<1>6. CASE strm[x].key = NoKey
  <2>1. tmpl[WildOf(d)] # NoKey
    BY <1>4, <1>6 DEF Resolve, NoStream
  <2>2. Resolve(x, d) = Clone(tmpl[WildOf(d)], d)
    BY <1>6, <2>1 DEF Resolve
  <2>3. Resolve(x, d).cloned /\ Resolve(x, d).key = tmpl[WildOf(d)]
    BY <2>2 DEF Clone, NoStream
  <2>4. QED
    BY <1>2, <1>3, <2>3
<1>7. QED
  BY <1>5, <1>6

\* Storing such a stream for x, leaving the templates, the allocator and
\* the zeroed keys alone, keeps the key invariant.
LEMMA StreamUpdateKeys ==
    ASSUME KeysInv, NEW x \in Ssrcs, NEW s \in StreamRecs, s.key # NoKey,
           \/ /\ s.key = strm[x].key /\ s.cloned = strm[x].cloned
           \/ /\ s.cloned /\ \E w \in Wild : s.key = tmpl[w],
           sess = "live",
           strm' = [strm EXCEPT ![x] = s],
           UNCHANGED <<sess, tmpl, nextKey, zeroed>>
    PROVE  (SessionEmpty /\ KeysAllocated /\ OwnedKeyUnique
            /\ ClonedKeyShared /\ KeysIntact)'
<1>1. s.key < nextKey /\ s.key \notin zeroed
  BY DEF KeysInv, KeysAllocated, KeysIntact, TypeOK
<1>2. \A y \in Ssrcs : strm'[y] = IF y = x THEN s ELSE strm[y]
  BY DEF KeysInv, TypeOK
<1>3. SessionEmpty'
  BY DEF SessionEmpty
<1>4. KeysAllocated'
  BY <1>1, <1>2 DEF KeysInv, KeysAllocated
<1>5. OwnedKeyUnique'
  BY <1>2 DEF KeysInv, OwnedKeyUnique
<1>6. ClonedKeyShared'
  BY <1>2 DEF KeysInv, ClonedKeyShared
<1>7. KeysIntact'
  BY <1>1, <1>2 DEF KeysInv, KeysIntact
<1>8. QED
  BY <1>3, <1>4, <1>5, <1>6, <1>7
LEMMA KeysInvInit == Init => KeysInv
BY TypeInit DEF Init, KeysInv, SessionEmpty, KeysAllocated, OwnedKeyUnique,
   ClonedKeyShared, KeysIntact, NoStream

\* Every step keeps the key invariant.
LEMMA KeysStep == KeysInv /\ [Next]_vars => KeysInv'
<1> SUFFICES ASSUME KeysInv, [Next]_vars PROVE KeysInv'
  OBVIOUS
<1>0. TypeOK'
  BY TypeStep DEF KeysInv
<1> DEFINE KeyParts == SessionEmpty /\ KeysAllocated /\ OwnedKeyUnique
                       /\ ClonedKeyShared /\ KeysIntact
<1> SUFFICES KeyParts'
  BY <1>0 DEF KeysInv
<1>1. ASSUME NEW pl \in PolicyLists, Create(pl) PROVE KeyParts'
  <2>1. PICK n \in 0 .. MaxPolicies : pl \in [1 .. n -> Selectors]
    BY DEF PolicyLists
  <2>2. Len(pl) = n
    BY <2>1, FunLen
  <2>3. CASE KeyAvailable(Len(pl)) /\ sess' = "live"
    <3>1. ASSUME NEW sel, Listed(pl, sel)
          PROVE  EntryKey(pl, sel) \in nextKey .. (nextKey + n - 1)
      BY <2>1, <3>1, EntryKeyRange DEF KeysInv, TypeOK
    <3>2. nextKey' = nextKey + n
      BY <1>1, <2>2, <2>3 DEF Create
    <3>3. /\ \A w \in Wild : tmpl'[w] = IF Listed(pl, w) THEN EntryKey(pl, w) ELSE NoKey
          /\ \A x \in Ssrcs : strm'[x].key = IF Listed(pl, x) THEN EntryKey(pl, x) ELSE NoKey
          /\ \A x \in Ssrcs : ~strm'[x].cloned
          /\ zeroed' = zeroed
      BY <1>1, <2>3 DEF Create, NoStream
    <3>4. \A x \in Ssrcs, w \in Wild : x # w
      BY DEF Wild
    <3>5. KeysAllocated'
      <4>1. nextKey \in Nat /\ \A k \in zeroed : k < nextKey
            /\ zeroed \subseteq Nat
        BY DEF KeysInv, TypeOK, KeysAllocated, KeyIds
      <4>2. ASSUME NEW sel, Listed(pl, sel) PROVE EntryKey(pl, sel) < nextKey'
        <5>1. EntryKey(pl, sel) \in nextKey .. (nextKey + n - 1)
          BY <3>1, <4>2
        <5>2. QED
          BY <2>1, <3>2, <4>1, <5>1, SMT
      <4>3. \A x \in Ssrcs : strm'[x].key # NoKey => strm'[x].key < nextKey'
        BY <3>3, <4>2 DEF NoKey
      <4>4. \A w \in Wild : tmpl'[w] # NoKey => tmpl'[w] < nextKey'
        BY <3>3, <4>2 DEF NoKey
      <4>5. \A k \in zeroed' : k < nextKey'
        BY <2>1, <3>2, <3>3, <4>1, SMT
      <4>6. QED
        BY <4>3, <4>4, <4>5 DEF KeysAllocated
    <3>6. OwnedKeyUnique'
      <4>1. ASSUME NEW a \in Selectors, NEW b \in Selectors, a # b,
                   Listed(pl, a), Listed(pl, b)
            PROVE  EntryKey(pl, a) # EntryKey(pl, b)
        BY <2>1, <4>1, EntryKeyInjective DEF KeysInv, TypeOK
      <4>2. ASSUME NEW sel, Listed(pl, sel) PROVE EntryKey(pl, sel) # NoKey
        BY <3>1, <4>2, SMT DEF KeysInv, TypeOK, NoKey
      <4>3. QED
        BY <3>3, <3>4, <4>1, <4>2 DEF OwnedKeyUnique, Selectors
    <3>7. ClonedKeyShared'
      BY <3>3 DEF ClonedKeyShared
    <3>8. KeysIntact'
      <4>1. \A k \in zeroed : k < nextKey
        BY DEF KeysInv, KeysAllocated
      <4>2. QED
        BY <3>1, <3>3, <4>1, SMT DEF KeysIntact, KeysInv, TypeOK
    <3>9. QED
      BY <2>3, <3>5, <3>6, <3>7, <3>8 DEF SessionEmpty
  <2>4. CASE ~(KeyAvailable(Len(pl)) /\ sess' = "live")
    BY <1>1, <2>4 DEF Create, KeysInv, SessionEmpty, KeysAllocated,
       OwnedKeyUnique, ClonedKeyShared, KeysIntact
  <2>5. QED
    BY <2>3, <2>4
<1>2. ASSUME NEW sel \in Selectors, AddStream(sel) PROVE KeyParts'
  <2>1. /\ \A x \in Ssrcs : strm[x].key # NoKey => strm[x].key < nextKey
        /\ \A w \in Wild : tmpl[w] # NoKey => tmpl[w] < nextKey
        /\ \A k \in zeroed : k < nextKey
        /\ nextKey \in 1 .. (MaxKeys + 1)
        /\ \A x \in Ssrcs : strm[x].key \in Nat
        /\ \A w \in Wild : tmpl[w] \in Nat
        /\ zeroed \subseteq Nat
    BY DEF KeysInv, KeysAllocated, TypeOK, StreamRecs, KeyIds, NoKey
  <2>2. CASE sel \in Wild /\ tmpl[sel] = NoKey /\ KeyAvailable(1)
    <3>1. /\ \A w \in Wild : tmpl'[w] = IF w = sel THEN nextKey ELSE tmpl[w]
          /\ nextKey' = nextKey + 1
          /\ sess' = sess /\ strm' = strm /\ zeroed' = zeroed
      BY <1>2, <2>2 DEF AddStream, KeysInv, TypeOK
    <3>2. nextKey # NoKey /\ nextKey \notin zeroed
      BY <2>1, SMT DEF NoKey
    <3>3. \A x \in Ssrcs : strm[x].key # nextKey
      BY <2>1, SMT DEF NoKey
    <3>4. \A w \in Wild : tmpl[w] # NoKey => tmpl[w] # nextKey
      BY <2>1, SMT
    <3>5. KeysAllocated'
      BY <2>1, <3>1, SMT DEF KeysAllocated
    <3>6. OwnedKeyUnique'
      BY <3>1, <3>3 DEF KeysInv, OwnedKeyUnique
    <3>7. ClonedKeyShared'
      BY <2>2, <3>1, <3>4 DEF KeysInv, ClonedKeyShared
    <3>8. KeysIntact'
      BY <3>1, <3>2 DEF KeysInv, KeysIntact
    <3>9. QED
      BY <1>2, <3>1, <3>5, <3>6, <3>7, <3>8 DEF SessionEmpty, AddStream
  <2>3. CASE sel \in Ssrcs /\ strm[sel].key = NoKey /\ KeyAvailable(1)
    <3> DEFINE ns == [NoStream EXCEPT !.key = nextKey]
    <3>1. /\ \A y \in Ssrcs : strm'[y] = IF y = sel THEN ns ELSE strm[y]
          /\ nextKey' = nextKey + 1
          /\ sess' = sess /\ tmpl' = tmpl /\ zeroed' = zeroed
      BY <1>2, <2>3 DEF AddStream, KeysInv, TypeOK, Wild
    <3>2. ns.key = nextKey /\ ~ns.cloned
      BY DEF NoStream
    <3>3. nextKey # NoKey /\ nextKey \notin zeroed
      BY <2>1, SMT DEF NoKey
    <3>4. \A x \in Ssrcs : strm[x].key # nextKey
      BY <2>1, SMT DEF NoKey
    <3>5. \A w \in Wild : tmpl[w] # nextKey
      BY <2>1, SMT DEF NoKey
    <3>6. KeysAllocated'
      <4>1. \A y \in Ssrcs : strm'[y].key # NoKey => strm'[y].key < nextKey'
        <5>1. ns.key < nextKey + 1
          BY <2>1, <3>2, SMT
        <5>2. \A y \in Ssrcs \ {sel} : strm[y].key # NoKey => strm[y].key < nextKey + 1
          BY <2>1, SMT
        <5>3. QED
          BY <3>1, <5>1, <5>2
      <4>2. \A w \in Wild : tmpl'[w] # NoKey => tmpl'[w] < nextKey'
        BY <2>1, <3>1, SMT
      <4>3. \A k \in zeroed' : k < nextKey'
        BY <2>1, <3>1, SMT
      <4>4. QED
        BY <4>1, <4>2, <4>3 DEF KeysAllocated
    <3>7. OwnedKeyUnique'
      BY <3>1, <3>2, <3>4, <3>5 DEF KeysInv, OwnedKeyUnique
    <3>8. ClonedKeyShared'
      BY <3>1, <3>2 DEF KeysInv, ClonedKeyShared
    <3>9. KeysIntact'
      BY <3>1, <3>2, <3>3 DEF KeysInv, KeysIntact
    <3>10. QED
      BY <1>2, <3>1, <3>6, <3>7, <3>8, <3>9 DEF SessionEmpty, AddStream
  <2>4. CASE ~(sel \in Wild /\ tmpl[sel] = NoKey /\ KeyAvailable(1))
             /\ ~(sel \in Ssrcs /\ strm[sel].key = NoKey /\ KeyAvailable(1))
    <3>1. UNCHANGED <<sess, tmpl, strm, nextKey, zeroed>>
      BY <1>2, <2>4 DEF AddStream
    <3>2. QED
      BY <3>1 DEF KeysInv, SessionEmpty, KeysAllocated, OwnedKeyUnique,
         ClonedKeyShared, KeysIntact
  <2>5. QED
    BY <2>2, <2>3, <2>4
<1>3. ASSUME NEW x \in Ssrcs, RemoveStream(x) PROVE KeyParts'
  <2>1. CASE strm[x].key # NoKey
    <3>1. strm' = [strm EXCEPT ![x] = NoStream]
          /\ zeroed' = zeroed \cup OwnedKeys(strm[x])
          /\ UNCHANGED <<sess, tmpl, nextKey>>
      BY <1>3, <2>1 DEF RemoveStream
    <3>2. \A y \in Ssrcs : strm'[y] = IF y = x THEN NoStream ELSE strm[y]
      BY <3>1 DEF KeysInv, TypeOK
    <3>3. \A k \in OwnedKeys(strm[x]) :
              /\ k < nextKey
              /\ \A y \in Ssrcs \ {x} : strm[y].key # k
              /\ \A w \in Wild : tmpl[w] # k
      BY <2>1 DEF OwnedKeys, KeysInv, KeysAllocated, OwnedKeyUnique
    <3>4. QED
      BY <1>3, <3>1, <3>2, <3>3 DEF KeysInv, SessionEmpty, KeysAllocated,
         OwnedKeyUnique, ClonedKeyShared, KeysIntact, NoStream
  <2>2. CASE strm[x].key = NoKey
    BY <1>3, <2>2 DEF RemoveStream, KeysInv, SessionEmpty, KeysAllocated,
       OwnedKeyUnique, ClonedKeyShared, KeysIntact
  <2>3. QED
    BY <2>1, <2>2
<1>4. CASE Dealloc
  <2>1. CASE sess = "live"
    <3>1. \A k \in HeldKeys \ {NoKey} : k < nextKey
      BY DEF HeldKeys, KeysInv, KeysAllocated
    <3>2. QED
      BY <1>4, <2>1, <3>1 DEF Dealloc, KeysInv, SessionEmpty, KeysAllocated,
         OwnedKeyUnique, ClonedKeyShared, KeysIntact, NoStream
  <2>2. CASE sess # "live"
    BY <1>4, <2>2 DEF Dealloc, KeysInv, SessionEmpty, KeysAllocated,
       OwnedKeyUnique, ClonedKeyShared, KeysIntact
  <2>3. QED
    BY <2>1, <2>2
<1>5. ASSUME NEW x \in Ssrcs, NEW q \in 0 .. (SeqSpace - 1), Protect(x, q)
      PROVE  KeyParts'
  <2> DEFINE st == Bind(Resolve(x, "out"), "out")
             i  == Index(st, q)
             r  == CallResult(st, i, TRUE)
  <2>1. st \in StreamRecs /\ i \in Indices /\ Advance(st, i) \in StreamRecs
    BY StreamStepTyped DEF Dirs, KeysInv
  <2>2. Advance(st, i).key = st.key /\ Advance(st, i).cloned = st.cloned
    BY <2>1, AdvanceTyped
  <2>3. CASE st.key = NoKey
    BY <1>5, <2>3 DEF Protect, KeysInv, SessionEmpty, KeysAllocated,
       OwnedKeyUnique, ClonedKeyShared, KeysIntact
  <2>4. CASE st.key # NoKey
    <3>1. \/ st.key = strm[x].key /\ st.cloned = strm[x].cloned
          \/ st.cloned /\ \E w \in Wild : st.key = tmpl[w]
      BY <2>4, ResolveKey DEF Dirs, KeysInv
    <3>2. UNCHANGED <<sess, tmpl, nextKey, zeroed>> /\ sess = "live"
      BY <1>5 DEF Protect
    <3>3. CASE r = "ok"
      <4>1. strm' = [strm EXCEPT ![x] = Advance(st, i)]
        BY <1>5, <2>4, <3>3 DEF Protect
      <4>2. QED
        BY <2>1, <2>2, <2>4, <3>1, <3>2, <4>1, StreamUpdateKeys
    <3>4. CASE r # "ok"
      <4>1. strm' = [strm EXCEPT ![x] = st]
        BY <1>5, <2>4, <3>4 DEF Protect
      <4>2. QED
        BY <2>1, <2>4, <3>1, <3>2, <4>1, StreamUpdateKeys
    <3>5. QED
      BY <3>3, <3>4
  <2>5. QED
    BY <2>3, <2>4
<1>6. ASSUME NEW p \in WirePackets, Unprotect(p) PROVE KeyParts'
  <2> DEFINE x  == p[1]
             st == Bind(Resolve(x, "in"), "in")
             i  == Index(st, SeqOf(p[3]))
             r  == CallResult(st, i, p[2] = st.key /\ p[3] = i)
  <2>1. x \in Ssrcs /\ SeqOf(p[3]) \in 0 .. (SeqSpace - 1)
    BY RocSeqInRange DEF WirePackets
  <2>2. st \in StreamRecs /\ i \in Indices /\ Advance(st, i) \in StreamRecs
    BY <2>1, StreamStepTyped DEF Dirs, KeysInv
  <2>3. Advance(st, i).key = st.key /\ Advance(st, i).cloned = st.cloned
    BY <2>2, AdvanceTyped
  <2>4. CASE st.key = NoKey
    BY <1>6, <2>4 DEF Unprotect, KeysInv, SessionEmpty, KeysAllocated,
       OwnedKeyUnique, ClonedKeyShared, KeysIntact
  <2>5. CASE st.key # NoKey
    <3>1. \/ st.key = strm[x].key /\ st.cloned = strm[x].cloned
          \/ st.cloned /\ \E w \in Wild : st.key = tmpl[w]
      BY <2>1, <2>5, ResolveKey DEF Dirs, KeysInv
    <3>2. UNCHANGED <<sess, tmpl, nextKey, zeroed>> /\ sess = "live"
      BY <1>6 DEF Unprotect
    <3>3. CASE r = "ok"
      <4>1. strm' = [strm EXCEPT ![x] = Advance(st, i)]
        BY <1>6, <2>5, <3>3 DEF Unprotect
      <4>2. QED
        BY <2>1, <2>2, <2>3, <2>5, <3>1, <3>2, <4>1, StreamUpdateKeys
    <3>4. CASE r # "ok"
      <4>1. strm' = [strm EXCEPT ![x] = st]
        BY <1>6, <2>5, <3>4 DEF Unprotect
      <4>2. QED
        BY <2>1, <2>2, <2>5, <3>1, <3>2, <4>1, StreamUpdateKeys
    <3>5. QED
      BY <3>3, <3>4
  <2>6. QED
    BY <2>4, <2>5
<1>7. CASE UNCHANGED vars
  BY <1>7 DEF vars, KeysInv, SessionEmpty, KeysAllocated, OwnedKeyUnique,
     ClonedKeyShared, KeysIntact
<1>8. QED
  BY <1>1, <1>2, <1>3, <1>4, <1>5, <1>6, <1>7 DEF Next

\* No stream or template still in the session holds a key that
\* asrtpa_remove_stream or asrtpa_dealloc has zeroed, for every number of
\* SSRCs, keys and policies: removing a stream zeroes only a key nobody
\* else holds, and the allocator never hands out a zeroed key again.
THEOREM SessionKeysIntact == Spec => []KeysIntact
<1>1. KeysInv => KeysIntact
  BY DEF KeysInv
<1>2. QED
  BY KeysInvInit, KeysStep, <1>1, PTL DEF Spec


(***************************************************************************)
(* Key sharing: what a master key has protected and accepted is counted   *)
(* by used[k], which the hard-limit check keeps under KeyLimit.            *)
(***************************************************************************)

\* The packets the session protected or accepted under master key k, over
\* all the streams that share it.
KeyUses(k) ==
    {q \in sent : q[2] = k} \cup {q \in DOMAIN acc : q[2] = k /\ acc[q] >= 1}

UsesCounted ==
    \A k \in KeyIds : IsFiniteSet(KeyUses(k)) /\ Cardinality(KeyUses(k)) <= used[k]

\* A set that gains at most one element grows by at most one.
LEMMA CountGrows ==
    ASSUME NEW S, NEW T, NEW e, NEW n \in Nat, IsFiniteSet(S),
           Cardinality(S) <= n, T \subseteq S \cup {e}
    PROVE  IsFiniteSet(T) /\ Cardinality(T) <= n + 1
<1>0. /\ IsFiniteSet(S \cup {e})
      /\ Cardinality(S \cup {e}) =
            IF e \in S THEN Cardinality(S) ELSE Cardinality(S) + 1
  BY FS_AddElement
<1>1. IsFiniteSet(S \cup {e}) /\ Cardinality(S \cup {e}) <= Cardinality(S) + 1
  <2>1. Cardinality(S) \in Nat
    BY FS_CardinalityType
  <2>2. QED
    BY <1>0, <2>1, SMT
<1>2. IsFiniteSet(T) /\ Cardinality(T) <= Cardinality(S \cup {e})
  BY <1>1, FS_Subset
<1>3. QED
  BY <1>1, <1>2, FS_CardinalityType, SMT

\* A step that records one packet e under key kk, and counts it against
\* kk, keeps every key's uses counted.
LEMMA CountOne ==
    ASSUME TypeOK, UsesCounted, NEW e, NEW kk \in KeyIds, e[2] = kk,
           sent' \subseteq sent \cup {e},
           DOMAIN acc' = DOMAIN acc,
           \A q \in DOMAIN acc : q # e => acc'[q] = acc[q],
           used' = [used EXCEPT ![kk] = @ + 1]
    PROVE  UsesCounted'
<1> SUFFICES ASSUME NEW k \in KeyIds
             PROVE  IsFiniteSet(KeyUses(k)') /\ Cardinality(KeyUses(k)') <= used'[k]
  BY DEF UsesCounted
<1>1. used[k] \in Nat /\ used'[k] = IF k = kk THEN used[k] + 1 ELSE used[k]
  BY DEF TypeOK
<1>2. IsFiniteSet(KeyUses(k)) /\ Cardinality(KeyUses(k)) <= used[k]
  BY DEF UsesCounted
<1>3. KeyUses(k)' \subseteq KeyUses(k) \cup {e}
  BY DEF KeyUses
<1>4. CASE k = kk
  <2>1. IsFiniteSet(KeyUses(k)') /\ Cardinality(KeyUses(k)') <= used[k] + 1
    BY <1>1, <1>2, <1>3, CountGrows
  <2>2. used'[k] = used[k] + 1
    BY <1>1, <1>4
  <2>3. QED
    BY <2>1, <2>2
<1>5. CASE k # kk
  <2>1. KeyUses(k)' \subseteq KeyUses(k)
    BY <1>3, <1>5 DEF KeyUses
  <2>2. QED
    BY <1>1, <1>2, <1>5, <2>1, FS_Subset, FS_CardinalityType, SMT
<1>6. QED
  BY <1>4, <1>5

\* A step that neither records nor counts a packet.
LEMMA CountSame ==
    ASSUME UsesCounted, UNCHANGED <<sent, acc, used>>
    PROVE  UsesCounted'
BY DEF UsesCounted, KeyUses

LEMMA CountInit == Init => UsesCounted
<1> SUFFICES ASSUME Init, NEW k \in KeyIds
             PROVE  IsFiniteSet(KeyUses(k)) /\ Cardinality(KeyUses(k)) <= used[k]
  BY DEF UsesCounted
<1>1. KeyUses(k) = {} /\ used[k] = 0
  BY DEF Init, KeyUses
<1>2. QED
  BY <1>1, FS_EmptySet

LEMMA CountStep == TypeOK /\ UsesCounted /\ [Next]_vars => UsesCounted'
<1> SUFFICES ASSUME TypeOK, UsesCounted, [Next]_vars PROVE UsesCounted'
  OBVIOUS
<1>1. ASSUME NEW x \in Ssrcs, NEW q \in 0 .. (SeqSpace - 1), Protect(x, q)
      PROVE  UsesCounted'
  <2> DEFINE st == Bind(Resolve(x, "out"), "out")
             i  == Index(st, q)
             r  == CallResult(st, i, TRUE)
  <2>1. st \in StreamRecs
    BY StreamStepTyped DEF Dirs
  <2>2. CASE st.key # NoKey /\ r = "ok"
    <3>1. st.key \in KeyIds
      BY <2>1, <2>2 DEF StreamRecs, NoKey
    <3>2. /\ sent' = sent \cup {<<x, st.key, i>>}
          /\ acc' = acc
          /\ used' = [used EXCEPT ![st.key] = @ + 1]
      BY <1>1, <2>2 DEF Protect
    <3>3. QED
      BY <3>1, <3>2, CountOne
  <2>3. CASE ~(st.key # NoKey /\ r = "ok")
    BY <1>1, <2>3, CountSame DEF Protect
  <2>4. QED
    BY <2>2, <2>3
<1>2. ASSUME NEW p \in WirePackets, Unprotect(p) PROVE UsesCounted'
  <2> DEFINE x  == p[1]
             st == Bind(Resolve(x, "in"), "in")
             i  == Index(st, SeqOf(p[3]))
             r  == CallResult(st, i, p[2] = st.key /\ p[3] = i)
  <2>1. x \in Ssrcs /\ SeqOf(p[3]) \in 0 .. (SeqSpace - 1)
    BY RocSeqInRange DEF WirePackets
  <2>2. st \in StreamRecs
    BY <2>1, StreamStepTyped DEF Dirs
  <2>3. CASE st.key # NoKey /\ r = "ok"
    <3>1. st.key \in KeyIds
      BY <2>2, <2>3 DEF StreamRecs, NoKey
    <3>2. p[2] = st.key
      BY <2>3, CallResultAuth
    <3>3. /\ sent' = sent
          /\ acc' = [acc EXCEPT ![p] = IF @ < 2 THEN @ + 1 ELSE 2]
          /\ used' = [used EXCEPT ![st.key] = @ + 1]
      BY <1>2, <2>3 DEF Unprotect
    <3>4. DOMAIN acc' = DOMAIN acc /\ \A e \in DOMAIN acc : e # p => acc'[e] = acc[e]
      BY <3>3
    <3>5. QED
      BY <3>1, <3>2, <3>3, <3>4, CountOne
  <2>4. CASE ~(st.key # NoKey /\ r = "ok")
    BY <1>2, <2>4, CountSame DEF Unprotect
  <2>5. QED
    BY <2>3, <2>4
<1>3. ASSUME NEW pl \in PolicyLists, Create(pl) PROVE UsesCounted'
  BY <1>3, CountSame DEF Create
<1>4. ASSUME NEW sel \in Selectors, AddStream(sel) PROVE UsesCounted'
  BY <1>4, CountSame DEF AddStream
<1>5. ASSUME NEW x \in Ssrcs, RemoveStream(x) PROVE UsesCounted'
  BY <1>5, CountSame DEF RemoveStream
<1>6. CASE Dealloc
  BY <1>6, CountSame DEF Dealloc
<1>7. CASE UNCHANGED vars
  BY <1>7, CountSame DEF vars
<1>8. QED
  BY <1>1, <1>2, <1>3, <1>4, <1>5, <1>6, <1>7 DEF Next

\* Key sharing (srtp.h:804-806): for every set of SSRCs, key limit and
\* allocator size, the packets a session protects or accepts under one
\* master key, over all the streams that share it and every clone of a
\* template, never exceed the key's hard limit.  The count is bounded by
\* used[k], which protect and unprotect test against the limit before
\* they count a packet.
THEOREM SessionSharedKeyBounded == Spec => []SharedKeyBounded
<1>1. Init => TypeOK /\ UsesCounted
  BY TypeInit, CountInit
<1>2. TypeOK /\ UsesCounted /\ [Next]_vars => (TypeOK /\ UsesCounted)'
  BY TypeStep, CountStep
<1>3. TypeOK /\ UsesCounted => SharedKeyBounded
  <2> SUFFICES ASSUME TypeOK, UsesCounted, NEW k \in KeyIds
               PROVE  Cardinality(KeyUses(k)) <= KeyLimit
    BY DEF SharedKeyBounded, KeyUses
  <2>1. Cardinality(KeyUses(k)) <= used[k] /\ used[k] \in 0 .. KeyLimit
    BY DEF UsesCounted, TypeOK
  <2>2. IsFiniteSet(KeyUses(k))
    BY DEF UsesCounted
  <2>3. QED
    BY <2>1, <2>2, FS_CardinalityType, SMT
<1>4. QED
  BY <1>1, <1>2, <1>3, PTL DEF Spec
=============================================================================
