----------------------- MODULE SdradSignalsOwners_proofs -----------------------
(***************************************************************************)
(* The bounds of SdradSignals, and that a domain on the call chain has a   *)
(* key and a stack of its own, unless a timer left the tables half updated.*)
(***************************************************************************)
EXTENDS SdradSignals_proofs, FiniteSetTheorems

-----------------------------------------------------------------------------
(* Bounds: no number is beyond what pkey_alloc can return. *)

Key == 0 .. MaxKeys

KeysBounded ==
  /\ \A s \in Slot : pdi[s] \in Key /\ sdi_address_stack[s] \in Key
  /\ \A k \in DOMAIN cache : cache[k].key \in Key /\ cache[k].stack \in Key
  /\ pkey \in Key /\ next <= MaxKeys + 1

UdiBounded ==
  /\ \A k \in DOMAIN udi_control : udi_control[k].udi \in Udi \cup {0}
  /\ udi \in Udi \cup {0}

BInv == IInv /\ KeysBounded /\ UdiBounded

-----------------------------------------------------------------------------
(* Who owns a key: the slots that are listed or on the chain. *)

Listed(s)  == \E k \in DOMAIN udi_control : udi_control[k].sdi = s
OnChain(s) == \E i \in DOMAIN calls : calls[i] = s
Owner(s)   == Listed(s) \/ OnChain(s)

(* The slot in work has no key and stack yet, or no longer. *)
Partial(s) == s = sdi /\ ctl \in {"key", "stack", "d_unlist"}
Whole(s)   == Owner(s) /\ ~Partial(s)

(* Its key and stack are in the cache already. *)
GivenUp(s) == s = sdi /\ ctl \in {"d_key", "r_unlist", "r_status", "r_resume"}

(* The entry is linked and not filled in. *)
Blank(k) == k = 1 /\ ctl \in {"d_fill", "r_fill"}
Filled == {k \in DOMAIN cache : ~Blank(k)}

(* A key is known by the stack that was made with it. *)
Pairs ==
  /\ pdi[MONITOR_DATA] = 1
  /\ \A s \in Slot : Whole(s) => /\ sdi_address_stack[s] = pdi[s]
                                 /\ 1 < pdi[s] /\ pdi[s] < next
  /\ \A k \in Filled : /\ cache[k].stack = cache[k].key
                       /\ 1 < cache[k].key /\ cache[k].key < next

KeysApart ==
  /\ \A r, s \in Slot : Whole(r) /\ Whole(s) /\ pdi[r] = pdi[s] => r = s
  /\ \A s \in Slot, k \in Filled : Whole(s) /\ ~GivenUp(s) => cache[k].key # pdi[s]
  /\ \A j, k \in Filled : cache[j].key = cache[k].key => j = k

(* The key that sdrad_init took is the head's, or nobody's. *)
KeyPc == {"slot", "node", "udi", "sdi", "key", "stack"}
KeyReserved ==
  /\ ctl \in KeyPc =>
       /\ 1 < pkey /\ pkey < next
       /\ \A s \in Slot : Whole(s) => pdi[s] # pkey
       /\ cache # <<>> => cache[1].key = pkey
  /\ ctl = "stack" => pdi[sdi] = pkey

(* A node without a slot has no udi, and cannot be found. *)
NodesWhole ==
  \A k \in DOMAIN udi_control :
    HalfFilled(k) => udi_control[k].udi = 0 \/ (k = 1 /\ ctl = "sdi")

(* What a step works on. *)
LinkedPc == {"key", "stack", "context", "e_active", "d_cache", "d_fill", "d_key", "d_unlist"}
InWork ==
  /\ ctl \in LinkedPc => Listed(sdi)
  /\ ctl \in DestroyPc => ~OnChain(sdi)
  /\ ctl = "e_switch" => OnChain(sdi)
  /\ ctl # "corrupt"

Apart == Pairs /\ KeysApart /\ KeyReserved /\ NodesWhole /\ InWork
OInv == BInv /\ (~torn => Apart)

-----------------------------------------------------------------------------
(* Bounds *)

(* The numbers that the bounds are about. *)
LEMMA KeyFacts == Key \subseteq Nat /\ 0 \in Key /\ 1 \in Key /\ 2 \in Key
BY SignalsAssumption DEF Key

(* The entries behind the head that was used. *)
LEMMA TailFacts ==
  ASSUME IInv, cache' = CacheWithoutHead
  PROVE  /\ \A k \in DOMAIN cache' : /\ k \in Nat /\ k # 0
                                     /\ k + 1 \in DOMAIN cache /\ cache'[k] = cache[k + 1]
         /\ \A k \in DOMAIN cache' : \E j \in DOMAIN cache : cache'[k] = cache[j]
<1>1. cache \in Seq(Entry) /\ Len(cache) \in Nat /\ DOMAIN cache = 1 .. Len(cache)
  BY CacheFacts DEF IInv, Types, Entry
<1>2. CASE cache = <<>>
  <2>1. cache' = <<>>
    BY <1>2 DEF CacheWithoutHead
  <2> QED
    BY <2>1
<1>3. CASE cache # <<>>
  <2>1. cache' = Tail(cache)
    BY <1>3 DEF CacheWithoutHead
  <2>2. /\ cache' \in Seq(Entry) /\ Len(cache') = Len(cache) - 1
        /\ \A k \in 1 .. Len(cache) - 1 : cache'[k] = cache[k + 1]
    BY <1>1, <1>3, <2>1, HeadProperties
  <2>3. DOMAIN cache' = 1 .. Len(cache) - 1
    BY <2>2, LenProperties
  <2>4. \A k \in DOMAIN cache' : /\ k \in Nat /\ k # 0
                                /\ k + 1 \in DOMAIN cache /\ cache'[k] = cache[k + 1]
    BY <1>1, <2>2, <2>3
  <2> QED
    BY <2>4
<1> QED
  BY <1>2, <1>3

(* An entry in front. *)
LEMMA LinkFacts ==
  ASSUME IInv, LinkEntry
  PROVE  /\ 1 \in DOMAIN cache' /\ cache'[1] = [key |-> 0, stack |-> NULL]
         /\ \A k \in DOMAIN cache' : /\ k \in Nat
                                     /\ k # 1 => /\ k - 1 \in DOMAIN cache
                                                 /\ cache'[k] = cache[k - 1]
<1>1. cache \in Seq(Entry) /\ Len(cache) \in Nat /\ DOMAIN cache = 1 .. Len(cache)
  BY CacheFacts DEF IInv, Types, Entry
<1>2. PICK e : e = [key |-> 0, stack |-> NULL]
  OBVIOUS
<1>3. e \in Entry /\ cache' = <<e>> \o cache
  BY <1>2 DEF LinkEntry, Entry, NULL
<1>4. /\ cache' \in Seq(Entry) /\ Len(cache') = Len(cache) + 1
      /\ \A k \in 1 .. Len(cache) + 1 : cache'[k] = IF k = 1 THEN e ELSE cache[k - 1]
  BY <1>1, <1>3, PushProperties
<1>5. DOMAIN cache' = 1 .. Len(cache) + 1
  BY <1>4, LenProperties
<1> QED
  BY <1>1, <1>2, <1>4, <1>5

(* The entry in front, filled in. *)
LEMMA FillFacts ==
  ASSUME IInv, FillEntry(sdi), cache # <<>>
  PROVE  /\ DOMAIN cache' = DOMAIN cache /\ 1 \in DOMAIN cache'
         /\ cache'[1] = [key |-> pdi[sdi], stack |-> sdi_address_stack[sdi]]
         /\ \A k \in DOMAIN cache' : k # 1 => cache'[k] = cache[k]
<1>1. cache \in Seq(Entry) /\ Len(cache) \in Nat /\ DOMAIN cache = 1 .. Len(cache)
  BY CacheFacts DEF IInv, Types, Entry
<1>2. PICK e : e = [key |-> pdi[sdi], stack |-> sdi_address_stack[sdi]]
  OBVIOUS
<1>3. PICK rest : rest = Tail(cache)
  OBVIOUS
<1>4. e \in Entry /\ cache' = <<e>> \o rest
  BY <1>2, <1>3 DEF FillEntry, Entry, IInv, Types
<1>5. /\ rest \in Seq(Entry) /\ Len(rest) = Len(cache) - 1
      /\ \A k \in 1 .. Len(cache) - 1 : rest[k] = cache[k + 1]
      /\ 1 \in DOMAIN cache
  BY <1>1, <1>3, HeadProperties
<1>6. /\ cache' \in Seq(Entry) /\ Len(cache') = Len(rest) + 1
      /\ \A k \in 1 .. Len(rest) + 1 : cache'[k] = IF k = 1 THEN e ELSE rest[k - 1]
  BY <1>4, <1>5, PushProperties
<1>7. DOMAIN cache' = DOMAIN cache
  BY <1>1, <1>5, <1>6, LenProperties
<1>8. ASSUME NEW k \in DOMAIN cache', k # 1 PROVE cache'[k] = cache[k]
  <2>1. k \in 1 .. Len(cache) /\ k - 1 \in 1 .. Len(cache) - 1
    BY <1>1, <1>7, <1>8
  <2>2. cache'[k] = rest[k - 1]
    BY <1>5, <1>6, <1>8, <2>1
  <2> QED
    BY <1>5, <2>1, <2>2
<1> QED
  BY <1>1, <1>2, <1>5, <1>6, <1>7, <1>8

(* What the steps that link an entry and fill it in leave in the cache. *)
LEMMA EntrySteps ==
  ASSUME IInv, DestroyCache \/ RewindCache, NEW k \in DOMAIN cache'
  PROVE  \/ cache'[k] = [key |-> 0, stack |-> NULL]
         \/ cache'[k] = [key |-> pdi[sdi], stack |-> sdi_address_stack[sdi]]
         \/ \E j \in DOMAIN cache : cache'[k] = cache[j]
<1>1. CASE LinkEntry
  BY <1>1, LinkFacts
<1>2. CASE FillEntry(sdi) /\ cache # <<>>
  BY <1>2, FillFacts
<1>3. LinkEntry \/ (FillEntry(sdi) /\ cache # <<>>)
  BY DEF DestroyCache, RewindCache, IInv, BeingFilled, At
<1> QED
  BY <1>1, <1>2, <1>3

(* Keys and stacks move between the slots and the cache, and are otherwise   *)
(* what pkey_alloc returned.                                                 *)
LEMMA KeysBoundedKept ==
  ASSUME IInv, KeysBounded, [Next]_vars
  PROVE  KeysBounded'
<1>1. /\ pdi \in [Slot -> Nat] /\ sdi_address_stack \in [Slot -> Nat]
      /\ sdi \in Slot /\ next \in Nat /\ next > 2 /\ MaxKeys \in Nat
  BY SignalsAssumption DEF IInv, Types, RootKeyKept
<1>2. ASSUME NEW u \in Udi, sdrad_init(u) PROVE KeysBounded'
  <2>1. UNCHANGED <<pdi, sdi_address_stack, cache>>
    BY <1>2 DEF sdrad_init, slotVars
  <2>2. /\ pkey' \in Key
        /\ next' <= MaxKeys + 1
    <3>1. CASE pkey' = pkey /\ next' = next
      BY <3>1 DEF KeysBounded
    <3>2. CASE ~(pkey' = pkey /\ next' = next)
      <4>1. /\ HasKey
            /\ pkey' = IF cache = <<>> THEN next ELSE Head(cache).key
            /\ next' = IF cache = <<>> THEN next + 1 ELSE next
        BY <1>2, <3>2 DEF sdrad_init
      <4>2. CASE cache = <<>>
        <5>1. next <= MaxKeys /\ pkey' = next /\ next' = next + 1
          BY <4>1, <4>2 DEF HasKey
        <5> QED
          BY <1>1, <5>1 DEF Key
      <4>3. CASE cache # <<>>
        <5>1. pkey' = cache[1].key /\ next' = next /\ 1 \in DOMAIN cache
          BY <4>1, <4>3, HeadOfCache
        <5> QED
          BY <5>1 DEF KeysBounded
      <4> QED
        BY <4>2, <4>3
    <3> QED
      BY <3>1, <3>2
  <2> QED
    BY <2>1, <2>2 DEF KeysBounded
<1>3. CASE InitKey
  <2>1. UNCHANGED <<sdi_address_stack, cache, pkey, next>> /\ pdi' = [pdi EXCEPT ![sdi] = pkey]
    BY <1>3 DEF InitKey, listVars, locals
  <2> QED
    BY <1>1, <2>1 DEF KeysBounded
<1>4. CASE InitStack
  <2>1. /\ UNCHANGED <<pdi, pkey, next>> /\ cache' = CacheWithoutHead
        /\ sdi_address_stack' = [sdi_address_stack EXCEPT ![sdi] =
                                   IF cache = <<>> THEN pkey ELSE Head(cache).stack]
    BY <1>4 DEF InitStack, locals
  <2>2. (IF cache = <<>> THEN pkey ELSE Head(cache).stack) \in Key
    BY HeadOfCache DEF KeysBounded
  <2>3. \A k \in DOMAIN cache' : \E j \in DOMAIN cache : cache'[k] = cache[j]
    BY <2>1, TailFacts
  <2>4. \A s \in Slot : sdi_address_stack'[s] \in Key
    BY <1>1, <2>1, <2>2 DEF KeysBounded
  <2>5. \A k \in DOMAIN cache' : cache'[k].key \in Key /\ cache'[k].stack \in Key
    BY <2>3 DEF KeysBounded
  <2> QED
    BY <2>1, <2>4, <2>5 DEF KeysBounded
<1>5. CASE DestroyCache \/ RewindCache
  <2>1. UNCHANGED <<pdi, sdi_address_stack, pkey, next>>
    BY <1>5 DEF DestroyCache, RewindCache, slotVars, locals
  <2>2. \A k \in DOMAIN cache' : cache'[k].key \in Key /\ cache'[k].stack \in Key
    BY <1>1, <1>5, EntrySteps, KeyFacts DEF KeysBounded, NULL
  <2> QED
    BY <2>1, <2>2 DEF KeysBounded
<1>6. CASE DestroyKey
  <2>1. UNCHANGED <<sdi_address_stack, cache, pkey, next>> /\ pdi' = [pdi EXCEPT ![sdi] = 0]
    BY <1>6 DEF DestroyKey, listVars, locals
  <2> QED
    BY <1>1, <2>1, KeyFacts DEF KeysBounded
<1>7. ASSUME UNCHANGED <<pdi, sdi_address_stack, cache, next>>, pkey' = pkey \/ pkey' = 0
      PROVE  KeysBounded'
  BY <1>7, KeyFacts DEF KeysBounded
<1>8. ASSUME NEW u \in Udi,
             sdrad_deinit(u) \/ sdrad_enter(u) \/ sdrad_destroy(u) \/ CallWithoutSlot(u)
      PROVE  KeysBounded'
  BY <1>7, <1>8
  DEF sdrad_deinit, sdrad_enter, sdrad_destroy, CallWithoutSlot, listVars, slotVars, locals
<1>9. CASE InitSlot \/ InitNode \/ InitContext
  BY <1>7, <1>9 DEF InitSlot, InitNode, InitContext, ReturnFrom, listVars, slotVars, locals
<1>10. CASE EnterActive \/ EnterSwitch \/ sdrad_exit \/ ExitHeap
  BY <1>7, <1>10
  DEF EnterActive, EnterSwitch, sdrad_exit, ExitHeap, ReturnFrom, listVars, slotVars, locals
<1>11. CASE DestroyUnlist \/ Violation \/ Alarm
  BY <1>7, <1>11 DEF DestroyUnlist, Violation, Alarm, listVars, slotVars, locals
<1>12. CASE sdrad_signal_handler \/ sdrad_abnormal_domain_exit \/ RewindStart
  BY <1>7, <1>12
  DEF sdrad_signal_handler, sdrad_abnormal_domain_exit, RewindStart, listVars, slotVars, locals
<1>13. CASE RewindUnlist \/ RewindStatus \/ RewindResume
  BY <1>7, <1>13
  DEF RewindUnlist, RewindStatus, RewindResume, ReturnFrom, listVars, slotVars, locals
<1>14. CASE Ended \/ UNCHANGED vars
  BY <1>7, <1>14 DEF Ended, vars, listVars, slotVars, locals
<1> QED
  BY <1>2, <1>3, <1>4, <1>5, <1>6, <1>8, <1>9, <1>10, <1>11, <1>12, <1>13, <1>14
  DEF Next, LibraryStep, Recovery

(* The list without a node, and the nodes that stay. *)
LEMMA NodesLeft ==
  ASSUME IInv, NEW there, Unlist(sdi, there)
  PROVE  \A i \in DOMAIN udi_control' : \E p \in DOMAIN udi_control :
           udi_control'[i] = udi_control[p]
BY UnlistFacts

(* A new node. *)
LEMMA NodeFacts ==
  ASSUME IInv, At("node"), InitNode
  PROVE  /\ 1 \in DOMAIN udi_control' /\ udi_control'[1] = [udi |-> 0, sdi |-> NO_SLOT]
         /\ \A k \in DOMAIN udi_control' :
              k # 1 => k - 1 \in DOMAIN udi_control /\ udi_control'[k] = udi_control[k - 1]
<1>1. /\ udi_control \in Seq(Node) /\ Len(udi_control) \in Nat
      /\ DOMAIN udi_control = 1 .. Len(udi_control)
  BY ListFacts DEF IInv, Types, Node
<1>2. PICK e : e = [udi |-> 0, sdi |-> NO_SLOT]
  OBVIOUS
<1>3. e \in Node /\ udi_control' = <<e>> \o udi_control
  BY <1>2 DEF InitNode, At, Node
<1>4. /\ udi_control' \in Seq(Node) /\ Len(udi_control') = Len(udi_control) + 1
      /\ \A k \in 1 .. Len(udi_control) + 1 :
           udi_control'[k] = IF k = 1 THEN e ELSE udi_control[k - 1]
  BY <1>1, <1>3, PushProperties
<1>5. DOMAIN udi_control' = 1 .. Len(udi_control) + 1
  BY <1>4, LenProperties
<1> QED
  BY <1>1, <1>2, <1>4, <1>5

(* The new node, filled in. *)
LEMMA FilledNodeFacts ==
  ASSUME IInv, InitNode, ctl \in {"udi", "sdi"}
  PROVE  /\ DOMAIN udi_control' = DOMAIN udi_control /\ 1 \in DOMAIN udi_control
         /\ \A k \in DOMAIN udi_control' : k # 1 => udi_control'[k] = udi_control[k]
         /\ ctl = "udi" => udi_control'[1] = [udi_control[1] EXCEPT !.udi = udi]
         /\ ctl = "sdi" => udi_control'[1] = [udi_control[1] EXCEPT !.sdi = sdi]
<1>1. /\ udi_control \in Seq(Node) /\ udi_control # <<>>
  BY DEF IInv, Types, Node, BeingFilled
<1>2. 1 \in DOMAIN udi_control
  BY <1>1, HeadProperties
<1>3. CASE ctl = "udi"
  <2>1. udi_control' = [udi_control EXCEPT ![1].udi = udi]
    BY <1>3 DEF InitNode, At
  <2> QED
    BY <1>2, <1>3, <2>1
<1>4. CASE ctl = "sdi"
  <2>1. udi_control' = [udi_control EXCEPT ![1].sdi = sdi]
    BY <1>4 DEF InitNode, At
  <2> QED
    BY <1>2, <1>4, <2>1
<1> QED
  BY <1>3, <1>4

(* A node names what an application gave to sdrad_init, or nothing yet. *)
LEMMA UdiBoundedKept ==
  ASSUME IInv, UdiBounded, [Next]_vars
  PROVE  UdiBounded'
<1>1. ASSUME UNCHANGED udi_control, udi' \in Udi \/ udi' = udi \/ udi' = 0
      PROVE  UdiBounded'
  BY <1>1 DEF UdiBounded
<1>2. CASE InitNode
  <2>1. udi' = udi
    BY <1>2 DEF InitNode, locals
  <2>2. CASE ctl = "node"
    BY <1>2, <2>1, <2>2, NodeFacts DEF UdiBounded, At
  <2>3. CASE ctl = "udi"
    <3>1. udi_control[1] \in Node /\ udi_control'[1] = [udi_control[1] EXCEPT !.udi = udi]
      BY <1>2, <2>3, FilledNodeFacts, ListFacts DEF IInv
    <3>2. udi_control'[1].udi = udi
      BY <3>1 DEF Node
    <3> QED
      BY <1>2, <2>1, <2>3, <3>2, FilledNodeFacts DEF UdiBounded
  <2>4. CASE ctl = "sdi"
    <3>1. udi_control[1] \in Node /\ udi_control'[1] = [udi_control[1] EXCEPT !.sdi = sdi]
      BY <1>2, <2>4, FilledNodeFacts, ListFacts DEF IInv
    <3>2. udi_control'[1].udi = udi_control[1].udi
      BY <3>1 DEF Node
    <3> QED
      BY <1>2, <2>1, <2>4, <3>2, FilledNodeFacts DEF UdiBounded
  <2> QED
    BY <1>2, <2>2, <2>3, <2>4 DEF InitNode, At
<1>3. CASE DestroyUnlist \/ RewindUnlist
  <2>1. udi' = udi \/ udi' = 0
    BY <1>3 DEF DestroyUnlist, RewindUnlist, locals
  <2>2. \A i \in DOMAIN udi_control' : \E p \in DOMAIN udi_control :
          udi_control'[i] = udi_control[p]
    BY <1>3, NodesLeft DEF DestroyUnlist, RewindUnlist
  <2> QED
    BY <2>1, <2>2 DEF UdiBounded
<1>4. ASSUME NEW u \in Udi,
             \/ sdrad_init(u) \/ sdrad_deinit(u) \/ sdrad_enter(u) \/ sdrad_destroy(u)
             \/ CallWithoutSlot(u)
      PROVE  UdiBounded'
  BY <1>1, <1>4
  DEF sdrad_init, sdrad_deinit, sdrad_enter, sdrad_destroy, CallWithoutSlot, listVars, locals
<1>5. CASE InitSlot \/ InitKey \/ InitStack \/ InitContext
  BY <1>1, <1>5 DEF InitSlot, InitKey, InitStack, InitContext, ReturnFrom, listVars, locals
<1>6. CASE EnterActive \/ EnterSwitch \/ sdrad_exit \/ ExitHeap
  BY <1>1, <1>6 DEF EnterActive, EnterSwitch, sdrad_exit, ExitHeap, ReturnFrom, listVars, locals
<1>7. CASE DestroyCache \/ DestroyKey \/ Violation \/ Alarm
  BY <1>1, <1>7 DEF DestroyCache, DestroyKey, Violation, Alarm, listVars, locals
<1>8. CASE sdrad_signal_handler \/ sdrad_abnormal_domain_exit \/ RewindStart
  BY <1>1, <1>8 DEF sdrad_signal_handler, sdrad_abnormal_domain_exit, RewindStart, listVars, locals
<1>9. CASE RewindCache \/ RewindStatus \/ RewindResume
  BY <1>1, <1>9 DEF RewindCache, RewindStatus, RewindResume, ReturnFrom, listVars, locals
<1>10. CASE Ended \/ UNCHANGED vars
  BY <1>1, <1>10 DEF Ended, vars, listVars, locals
<1> QED
  BY <1>2, <1>3, <1>4, <1>5, <1>6, <1>7, <1>8, <1>9, <1>10 DEF Next, LibraryStep, Recovery

(* A chain of distinct slots is not longer than the table. *)
LEMMA ChainIsShort ==
  ASSUME IInv
  PROVE  Len(calls) \in Nat /\ Len(calls) <= TOTAL_DOMAIN
<1>1. Len(calls) \in Nat /\ calls \in [1 .. Len(calls) -> Slot]
  BY LenProperties DEF IInv, Types
<1>2. \A i, j \in 1 .. Len(calls) : calls[i] = calls[j] => i = j
  BY <1>1 DEF IInv, Chain
<1>3. IsFiniteSet(Slot) /\ Cardinality(Slot) = TOTAL_DOMAIN
  <2>1. 0 \in Int /\ TOTAL_DOMAIN - 1 \in Int /\ TOTAL_DOMAIN > 2 /\ TOTAL_DOMAIN \in Nat
    BY SignalsAssumption
  <2> QED
    BY <2>1, FS_Interval DEF Slot
<1>4. IsFiniteSet(1 .. Len(calls)) /\ Cardinality(1 .. Len(calls)) = Len(calls)
  BY <1>1, FS_Interval
<1>5. ~(Cardinality(Slot) < Cardinality(1 .. Len(calls)))
  BY <1>1, <1>2, <1>3, <1>4, FS_PigeonHole
<1>6. TOTAL_DOMAIN \in Nat
  BY SignalsAssumption
<1> QED
  BY <1>1, <1>3, <1>4, <1>5, <1>6

(* The bounds are those of TypeOK. *)
LEMMA BoundsAreTypes == BInv => TypeOK
<1> SUFFICES ASSUME BInv PROVE TypeOK
  OBVIOUS
<1>1. IInv /\ KeysBounded /\ UdiBounded /\ Types
  BY DEF BInv, IInv
<1>2. pdi \in [Slot -> 0 .. MaxKeys] /\ sdi_address_stack \in [Slot -> 0 .. MaxKeys]
  BY <1>1 DEF Types, KeysBounded, Key
<1>3. cache \in Seq([key : 0 .. MaxKeys, stack : 0 .. MaxKeys])
  <2>1. /\ Len(cache) \in Nat /\ DOMAIN cache = 1 .. Len(cache)
        /\ \A k \in DOMAIN cache : cache[k] \in Entry
    BY <1>1, CacheFacts
  <2>2. \A k \in 1 .. Len(cache) : cache[k] \in [key : 0 .. MaxKeys, stack : 0 .. MaxKeys]
    BY <1>1, <2>1 DEF KeysBounded, Key, Entry
  <2>3. cache \in [1 .. Len(cache) -> [key : 0 .. MaxKeys, stack : 0 .. MaxKeys]]
    <3>1. cache \in [1 .. Len(cache) -> Entry]
      BY <1>1, LenProperties DEF Types, Entry
    <3> QED
      BY <2>2, <3>1
  <2> DEFINE T == [key : 0 .. MaxKeys, stack : 0 .. MaxKeys]
  <2>4. Len(cache) \in Nat /\ cache \in [1 .. Len(cache) -> T]
    BY <2>1, <2>3
  <2> HIDE DEF T
  <2>5. cache \in Seq(T)
    BY <2>4, SeqDef
  <2> QED
    BY <2>5 DEF T
<1>4. udi_control \in Seq([udi : Udi \cup {0}, sdi : Slot \cup {NO_SLOT}])
  <2>1. /\ Len(udi_control) \in Nat /\ DOMAIN udi_control = 1 .. Len(udi_control)
        /\ \A k \in DOMAIN udi_control : udi_control[k] \in Node
    BY <1>1, ListFacts
  <2> DEFINE T == [udi : Udi \cup {0}, sdi : Slot \cup {NO_SLOT}]
  <2>2. \A k \in 1 .. Len(udi_control) : udi_control[k] \in T
    BY <1>1, <2>1 DEF UdiBounded, Node
  <2> HIDE DEF T
  <2>3. udi_control \in [1 .. Len(udi_control) -> T]
    <3>1. udi_control \in [1 .. Len(udi_control) -> Node]
      BY <1>1, LenProperties DEF Types, Node
    <3> QED
      BY <2>2, <3>1
  <2>4. udi_control \in Seq(T)
    BY <2>1, <2>3, SeqDef
  <2> QED
    BY <2>4 DEF T
<1>5. sdi_buffer \in [Slot -> 0 .. TOTAL_DOMAIN]
  <2>1. \A s \in Slot : sdi_buffer[s] \in Nat /\ sdi_buffer[s] <= Len(calls)
    BY <1>1 DEF IInv, Types, Frames, FrameOf
  <2>2. \A s \in Slot : sdi_buffer[s] \in 0 .. TOTAL_DOMAIN
    BY <1>1, <2>1, ChainIsShort, SignalsAssumption
  <2> QED
    BY <1>1, <2>2 DEF Types
<1> QED
  BY <1>1, <1>2, <1>3, <1>4, <1>5 DEF Types, TypeOK

(* The initial tables are within bounds. *)
LEMMA InitBInv == Init => BInv
<1> SUFFICES ASSUME Init PROVE BInv
  OBVIOUS
<1>1. IInv
  BY InitIInv
<1>2. KeysBounded
  BY KeyFacts, SignalsAssumption DEF Init, KeysBounded, Key, NULL
<1>3. UdiBounded
  BY DEF Init, UdiBounded
<1> QED
  BY <1>1, <1>2, <1>3 DEF BInv

-----------------------------------------------------------------------------
(* Who owns what, one write at a time *)

(* Where a slot is half way between the tables and the cache. *)
BusyPc == {"key", "stack", "d_fill", "d_key", "d_unlist", "r_fill", "r_unlist", "r_status",
           "r_resume"}

(* Nothing that is owned is new, and what is given up stays so until it is   *)
(* not owned any more.                                                       *)
LEMMA OwnersKept ==
  ASSUME IInv, Pairs, KeysApart, cache' = cache, next' \in Nat, next <= next',
         pdi'[MONITOR_DATA] = pdi[MONITOR_DATA],
         \A s \in Slot : Whole(s)' => /\ Whole(s) /\ pdi'[s] = pdi[s]
                                       /\ sdi_address_stack'[s] = sdi_address_stack[s],
         \A s \in Slot : Whole(s)' /\ GivenUp(s) => GivenUp(s)',
         \A k \in DOMAIN cache : ~Blank(k)' => ~Blank(k)
  PROVE  Pairs' /\ KeysApart'
<1>1. /\ next \in Nat /\ \A s \in Slot : pdi[s] \in Nat
      /\ \A k \in DOMAIN cache : cache[k].key \in Nat
  BY CacheFacts DEF IInv, Types, Entry
<1>2. \A k \in Filled' : k \in Filled /\ cache'[k] = cache[k]
  BY DEF Filled
<1>3. Pairs'
  <2>1. pdi'[MONITOR_DATA] = 1
    BY DEF Pairs
  <2>2. \A s \in Slot : Whole(s)' => /\ sdi_address_stack'[s] = pdi'[s]
                                      /\ 1 < pdi'[s] /\ pdi'[s] < next'
    BY <1>1 DEF Pairs
  <2>3. \A k \in Filled' : /\ cache'[k].stack = cache'[k].key
                            /\ 1 < cache'[k].key /\ cache'[k].key < next'
    <3> TAKE k \in Filled'
    <3>1. k \in Filled /\ cache'[k] = cache[k] /\ cache[k].key \in Nat
      BY <1>1, <1>2 DEF Filled
    <3>2. cache[k].stack = cache[k].key /\ 1 < cache[k].key /\ cache[k].key < next
      BY <3>1 DEF Pairs
    <3> QED
      BY <1>1, <3>1, <3>2
  <2> QED
    BY <2>1, <2>2, <2>3 DEF Pairs
<1>4. KeysApart'
  <2>1. \A r, s \in Slot : Whole(r)' /\ Whole(s)' /\ pdi'[r] = pdi'[s] => r = s
    BY DEF KeysApart
  <2>2. \A s \in Slot, k \in Filled' : Whole(s)' /\ ~GivenUp(s)' => cache'[k].key # pdi'[s]
    BY <1>2 DEF KeysApart
  <2>3. \A j, k \in Filled' : cache'[j].key = cache'[k].key => j = k
    BY <1>2 DEF KeysApart
  <2> QED
    BY <2>1, <2>2, <2>3 DEF KeysApart
<1> QED
  BY <1>3, <1>4

(* Outside the busy steps there is nothing in between. *)
LEMMA NotBusy ==
  ASSUME ctl \notin BusyPc
  PROVE  /\ \A s : ~Partial(s) /\ ~GivenUp(s) /\ (Whole(s) <=> Owner(s))
         /\ \A k : ~Blank(k)
         /\ Filled = DOMAIN cache
BY DEF BusyPc, Partial, GivenUp, Whole, Blank, Filled

(* A step from there that moves no key. *)
LEMMA QuietStep ==
  ASSUME IInv, Pairs, KeysApart, ctl \notin BusyPc,
         UNCHANGED <<cache, pdi, sdi_address_stack>>, next' \in Nat, next <= next',
         \A s \in Slot : Owner(s)' => Owner(s) \/ Partial(s)'
  PROVE  Pairs' /\ KeysApart'
<1>1. \A s \in Slot : Whole(s)' => Whole(s)
  BY NotBusy DEF Whole
<1> QED
  BY <1>1, NotBusy, OwnersKept

(* The slot that the search finds is owned. *)
LEMMA FoundFacts ==
  ASSUME IInv, NEW u \in Udi, NEW s \in FoundSlot(u)
  PROVE  s \in Slot /\ Listed(s)
BY SearchFacts DEF Listed

(* While every node that has a udi has its slot, no call works without one. *)
LEMMA NoCallWithoutSlot ==
  ASSUME Apart, NEW u \in Udi
  PROVE  ~CallWithoutSlot(u)
<1>1. SUFFICES ASSUME CallWithoutSlot(u) PROVE FALSE
  OBVIOUS
<1>2. PICK k \in DOMAIN udi_control : udi_control[k].sdi = NO_SLOT /\ udi_control[k].udi = u
  BY <1>1 DEF CallWithoutSlot, sdrad_search_udi_control, First
<1>3. u # 0 /\ ctl = "app"
  BY <1>1, SignalsAssumption DEF CallWithoutSlot, App
<1> QED
  BY <1>2, <1>3 DEF Apart, NodesWhole, HalfFilled

(* The calls chain unchanged, and the list. *)
LEMMA SameOwners ==
  ASSUME UNCHANGED <<udi_control, calls>>
  PROVE  \A s : (Owner(s)' <=> Owner(s)) /\ (Listed(s)' <=> Listed(s)) /\ (OnChain(s)' <=> OnChain(s))
BY DEF Owner, Listed, OnChain

(* sdrad_init takes a listed domain off the chain, or a key that is nobody's. *)
LEMMA sdrad_initApart ==
  ASSUME IInv, Apart, NEW u \in Udi, sdrad_init(u)
  PROVE  Apart'
<1>1. /\ ctl = "app" /\ UNCHANGED <<udi_control, calls, cache, pdi, sdi_address_stack>>
      /\ next \in Nat /\ next > 2
  BY DEF sdrad_init, App, slotVars, runVars, IInv, Types, RootKeyKept
<1>2. \/ /\ ctl' = "context" /\ next' = next
         /\ \E s \in FoundSlot(u) : sdi' = s
      \/ /\ ctl' = "slot"
         /\ pkey' = IF cache = <<>> THEN next ELSE Head(cache).key
         /\ next' = IF cache = <<>> THEN next + 1 ELSE next
  BY DEF sdrad_init, Goto
<1>3. ctl \notin BusyPc /\ ctl' \notin BusyPc
  BY <1>1, <1>2 DEF BusyPc
<1>4. Pairs' /\ KeysApart'
  <2>1. next' \in Nat /\ next <= next'
    BY <1>1, <1>2
  <2> QED
    BY <1>1, <1>3, <2>1, SameOwners, QuietStep DEF Apart
<1>5. KeyReserved'
  <2>1. CASE ctl' = "context"
    BY <2>1 DEF KeyReserved, KeyPc
  <2>2. CASE ctl' = "slot"
    <3>1. CASE cache = <<>>
      <4>1. pkey' = next /\ next' = next + 1
        BY <1>2, <2>2, <3>1
      <4>2. \A s \in Slot : Whole(s)' => pdi[s] < next /\ pdi[s] \in Nat
        BY <1>1, <1>3, NotBusy, SameOwners DEF Apart, Pairs, IInv, Types, Whole
      <4>3. \A s \in Slot : Whole(s)' => pdi'[s] # pkey'
        BY <1>1, <4>1, <4>2
      <4> QED
        BY <1>1, <2>2, <3>1, <4>1, <4>3 DEF KeyReserved
    <3>2. CASE cache # <<>>
      <4>1. pkey' = cache[1].key /\ next' = next /\ 1 \in Filled
        BY <1>2, <1>3, <2>2, <3>2, HeadOfCache, NotBusy
      <4>2. 1 < pkey' /\ pkey' < next'
        BY <4>1 DEF Apart, Pairs
      <4>3. \A s \in Slot : Whole(s)' => pdi'[s] # pkey'
        <5>1. \A s \in Slot : Whole(s)' => Whole(s) /\ ~GivenUp(s)
          BY <1>1, <1>3, NotBusy, SameOwners DEF Whole
        <5> QED
          BY <1>1, <4>1, <5>1 DEF Apart, KeysApart
      <4> QED
        BY <1>1, <2>2, <4>1, <4>2, <4>3 DEF KeyReserved
    <3> QED
      BY <3>1, <3>2
  <2> QED
    BY <1>2, <2>1, <2>2
<1>6. NodesWhole'
  BY <1>1 DEF Apart, NodesWhole, HalfFilled
<1>7. InWork'
  <2>1. ctl' = "context" => Listed(sdi')
    BY <1>2, FoundFacts
  <2>2. ctl' = "context" => Listed(sdi)'
    BY <1>1, <2>1 DEF Listed
  <2> QED
    BY <1>1, <1>2, <2>1, <2>2 DEF Apart, InWork, DestroyPc, LinkedPc
<1> QED
  BY <1>4, <1>5, <1>6, <1>7 DEF Apart

(* The chain without its top. *)
LEMMA ChainCut ==
  ASSUME IInv, Len(calls) > 1, calls' = Front(calls)
  PROVE  \A s : OnChain(s)' => OnChain(s) /\ s # calls[Len(calls)]
<1>1. calls \in Seq(Slot) /\ Len(calls) \in Nat /\ DOMAIN calls = 1 .. Len(calls)
  BY ChainFacts DEF IInv, Types
<1>2. /\ calls' \in Seq(Slot) /\ Len(calls') = Len(calls) - 1
      /\ \A i \in 1 .. Len(calls) - 1 : calls'[i] = calls[i]
  <2>1. Len(calls) > 0
    BY <1>1
  <2>2. /\ Front(calls) \in Seq(Slot) /\ Len(Front(calls)) = Len(calls) - 1
        /\ \A i \in 1 .. Len(calls) - 1 : Front(calls)[i] = calls[i]
    BY <1>1, <2>1, FrontProperties
  <2> QED
    BY <2>2
<1>3. DOMAIN calls' = 1 .. Len(calls) - 1
  BY <1>2, LenProperties
<1>4. ASSUME NEW s, NEW i \in DOMAIN calls', calls'[i] = s
      PROVE  OnChain(s) /\ s # calls[Len(calls)]
  <2>1. i \in DOMAIN calls /\ Len(calls) \in DOMAIN calls /\ i # Len(calls) /\ calls[i] = s
    BY <1>1, <1>2, <1>3, <1>4
  <2>2. calls[i] # calls[Len(calls)]
    BY <2>1 DEF IInv, Chain
  <2> QED
    BY <2>1, <2>2 DEF OnChain
<1> QED
  BY <1>4 DEF OnChain

(* A step that neither takes a key nor touches the tables. *)
LEMMA PlainStep ==
  ASSUME IInv, Apart, ctl \notin BusyPc \cup {"sdi"}, ctl' \notin KeyPc,
         UNCHANGED <<udi_control, cache, next, pdi, sdi_address_stack>>,
         \A s \in Slot : Owner(s)' => Owner(s), InWork'
  PROVE  Apart'
<1>1. Pairs' /\ KeysApart'
  <2>1. next' \in Nat /\ next <= next'
    BY DEF IInv, Types
  <2> QED
    BY <2>1, QuietStep DEF Apart
<1>2. KeyReserved'
  BY DEF KeyReserved, KeyPc
<1>3. NodesWhole'
  BY DEF Apart, NodesWhole, HalfFilled
<1> QED
  BY <1>1, <1>2, <1>3 DEF Apart

(* The steps of sdrad_init, sdrad_deinit, sdrad_enter, sdrad_destroy and of   *)
(* the handler that leave the list and the chain alone.                      *)
LEMMA ListlessStep ==
  ASSUME IInv, Apart, ctl \notin BusyPc \cup {"sdi"}, ctl' \notin KeyPc,
         UNCHANGED <<udi_control, calls, cache, next, pdi, sdi_address_stack>>,
         ctl' \in LinkedPc => Listed(sdi'),
         ctl' \in DestroyPc => ~OnChain(sdi'),
         ctl' = "e_switch" => OnChain(sdi'),
         ctl' # "corrupt"
  PROVE  Apart'
<1>1. \A s \in Slot : Owner(s)' => Owner(s)
  BY SameOwners
<1>2. (Listed(sdi)' <=> Listed(sdi')) /\ (OnChain(sdi)' <=> OnChain(sdi'))
  BY DEF Listed, OnChain
<1>3. InWork'
  BY <1>2 DEF Apart, InWork
<1> QED
  BY <1>1, <1>3, PlainStep

(* A frame is saved, or taken back. *)
LEMMA ContextApart ==
  ASSUME IInv, Apart, InitContext \/ \E u \in Udi : sdrad_deinit(u)
  PROVE  Apart'
<1>1. /\ ctl \in {"context", "app"} /\ ctl' = "app"
      /\ UNCHANGED <<udi_control, calls, cache, next, pdi, sdi_address_stack>>
  BY DEF InitContext, sdrad_deinit, At, App, ReturnFrom, Goto, listVars, runVars
<1> QED
  BY <1>1, ListlessStep DEF BusyPc, KeyPc, DestroyPc, LinkedPc

(* The domain that is entered is a listed one. *)
LEMMA sdrad_enterApart ==
  ASSUME IInv, Apart, NEW u \in Udi, sdrad_enter(u)
  PROVE  Apart'
<1>1. /\ ctl = "app" /\ ctl' = "e_active"
      /\ UNCHANGED <<udi_control, calls, cache, next, pdi, sdi_address_stack>>
      /\ sdi' \in FoundSlot(u)
  BY DEF sdrad_enter, App, Goto, listVars, slotVars
<1>2. Listed(sdi')
  BY <1>1, FoundFacts
<1> QED
  BY <1>1, <1>2, ListlessStep DEF BusyPc, KeyPc, DestroyPc, LinkedPc

(* So is the domain that is destroyed, and it is not on the chain. *)
LEMMA sdrad_destroyApart ==
  ASSUME IInv, Apart, NEW u \in Udi, sdrad_destroy(u)
  PROVE  Apart'
<1>1. /\ ctl = "app" /\ ctl' = "d_cache"
      /\ UNCHANGED <<udi_control, calls, cache, next, pdi, sdi_address_stack>>
      /\ sdi' \in FoundSlot(u) /\ \A i \in DOMAIN calls : calls[i] # sdi'
  BY DEF sdrad_destroy, App, Goto, listVars, slotVars, runVars
<1>2. Listed(sdi') /\ ~OnChain(sdi')
  BY <1>1, FoundFacts DEF OnChain
<1> QED
  BY <1>1, <1>2, ListlessStep DEF BusyPc, KeyPc, DestroyPc, LinkedPc

(* A listed domain joins the chain. *)
LEMMA EnterActiveApart ==
  ASSUME IInv, Apart, EnterActive
  PROVE  Apart'
<1>1. /\ ctl = "e_active" /\ ctl' = "e_switch" /\ sdi' = sdi /\ calls' = Append(calls, sdi)
      /\ UNCHANGED <<udi_control, cache, next, pdi, sdi_address_stack>>
  BY DEF EnterActive, At, Goto, listVars, slotVars, locals
<1>2. Listed(sdi) /\ sdi \in Slot
  BY <1>1 DEF Apart, InWork, LinkedPc, IInv, Types
<1>3. /\ Len(calls) \in Nat /\ DOMAIN calls = 1 .. Len(calls) /\ calls \in Seq(Slot)
  BY ChainFacts DEF IInv, Types
<1>4. /\ DOMAIN calls' = 1 .. Len(calls) + 1 /\ calls'[Len(calls) + 1] = sdi
      /\ \A i \in 1 .. Len(calls) : calls'[i] = calls[i]
  BY <1>1, <1>2, <1>3, AppendProperties
<1>5. \A s : OnChain(s)' => OnChain(s) \/ s = sdi
  BY <1>3, <1>4 DEF OnChain
<1>6. \A s \in Slot : Owner(s)' => Owner(s)
  BY <1>1, <1>2, <1>5 DEF Owner, Listed
<1>7. InWork'
  <2>1. OnChain(sdi)'
    BY <1>1, <1>3, <1>4 DEF OnChain
  <2> QED
    BY <1>1, <2>1 DEF InWork, DestroyPc, LinkedPc
<1> QED
  BY <1>1, <1>6, <1>7, PlainStep DEF BusyPc, KeyPc

(* The domain that was entered has a stack to change to. *)
LEMMA EnterSwitchApart ==
  ASSUME IInv, Apart, EnterSwitch
  PROVE  Apart'
<1>1. /\ ctl = "e_switch"
      /\ ctl' = IF sdi_address_stack[sdi] = NULL THEN "corrupt" ELSE "app"
      /\ UNCHANGED <<udi_control, calls, cache, next, pdi, sdi_address_stack>>
  BY DEF EnterSwitch, ReturnFrom, At, Goto, listVars, slotVars, runVars
<1>2. sdi_address_stack[sdi] # NULL
  <2>1. OnChain(sdi) /\ sdi \in Slot
    BY <1>1 DEF Apart, InWork, IInv, Types
  <2>2. Whole(sdi)
    BY <1>1, <2>1, NotBusy DEF BusyPc, Owner
  <2>3. sdi_address_stack[sdi] = pdi[sdi] /\ 1 < pdi[sdi]
    BY <2>1, <2>2 DEF Apart, Pairs
  <2> QED
    BY <2>3 DEF NULL
<1>3. ctl' = "app"
  BY <1>1, <1>2
<1> QED
  BY <1>1, <1>3, ListlessStep DEF BusyPc, KeyPc, DestroyPc, LinkedPc

(* The top of the chain returns. *)
LEMMA sdrad_exitApart ==
  ASSUME IInv, Apart, sdrad_exit
  PROVE  Apart'
<1>1. /\ ctl = "app" /\ ctl' = "x_heap" /\ Len(calls) > 1 /\ calls' = Front(calls)
      /\ UNCHANGED <<udi_control, cache, next, pdi, sdi_address_stack>>
  BY DEF sdrad_exit, App, Goto, listVars
<1>2. \A s : OnChain(s)' => OnChain(s)
  BY <1>1, ChainCut
<1>3. \A s \in Slot : Owner(s)' => Owner(s)
  BY <1>1, <1>2 DEF Owner, Listed
<1>4. InWork'
  BY <1>1 DEF InWork, DestroyPc, LinkedPc
<1> QED
  BY <1>1, <1>3, <1>4, PlainStep DEF BusyPc, KeyPc

(* Faults, the handler, and what they and a return only note. *)
LEMMA NotingApart ==
  ASSUME IInv, Apart,
         \/ ExitHeap \/ Violation
         \/ sdrad_signal_handler \/ sdrad_abnormal_domain_exit \/ RewindStart
  PROVE  Apart'
<1>1. /\ ctl \in {"x_heap", "app", "handler", "longjmp", "rewind"}
      /\ ctl' \in {"app", "killed", "handler", "longjmp", "aborted", "rewind", "r_cache"}
  BY DEF ExitHeap, Violation, RaiseSegv, sdrad_signal_handler, sdrad_abnormal_domain_exit,
         RewindStart, ReturnFrom, At, App, Goto
<1>2. UNCHANGED <<udi_control, calls, cache, next, pdi, sdi_address_stack>>
  BY DEF ExitHeap, Violation, sdrad_signal_handler, sdrad_abnormal_domain_exit,
         RewindStart, listVars, slotVars, runVars
<1> QED
  BY <1>1, <1>2, ListlessStep DEF BusyPc, KeyPc, DestroyPc, LinkedPc

(* A free slot is nobody's. *)
LEMMA InitSlotApart ==
  ASSUME IInv, Apart, InitSlot
  PROVE  Apart'
<1>1. /\ ctl = "slot" /\ ctl' = "node"
      /\ UNCHANGED <<udi_control, calls, cache, next, pdi, sdi_address_stack, pkey>>
  BY DEF InitSlot, At, Goto, runVars
<1>2. Pairs' /\ KeysApart'
  <2>1. next' \in Nat /\ next <= next' /\ \A s \in Slot : Owner(s)' => Owner(s)
    BY <1>1, SameOwners DEF IInv, Types
  <2> QED
    BY <1>1, <2>1, QuietStep DEF Apart, BusyPc
<1>3. KeyReserved'
  <2>1. \A s \in Slot : Whole(s)' => Whole(s)
    BY <1>1, SameOwners DEF Whole, Partial
  <2> QED
    BY <1>1, <2>1 DEF Apart, KeyReserved, KeyPc
<1>4. NodesWhole'
  BY <1>1 DEF Apart, NodesWhole, HalfFilled
<1>5. InWork'
  BY <1>1 DEF Apart, InWork, DestroyPc, LinkedPc
<1> QED
  BY <1>2, <1>3, <1>4, <1>5 DEF Apart

(* While the node is filled in, it has no slot, or the one in work, which has *)
(* nothing yet.                                                              *)
LEMMA InitNodeApart ==
  ASSUME IInv, Apart, InitNode
  PROVE  Apart'
<1>1. /\ ctl \in NodePc /\ ctl' = CASE ctl = "node" -> "udi" [] ctl = "udi" -> "sdi"
                                    [] OTHER -> "key"
      /\ UNCHANGED <<calls, cache, next, pdi, sdi_address_stack, pkey, sdi, udi>>
  BY DEF InitNode, At, Goto, NodePc, slotVars, runVars, locals
<1>2. sdi # NO_SLOT
  BY SlotFacts DEF IInv, Types
<1>3. \A k \in DOMAIN udi_control' : \/ \E j \in DOMAIN udi_control :
                                            udi_control'[k].sdi = udi_control[j].sdi
                                     \/ k = 1 /\ ctl = "node" /\ udi_control'[k].sdi = NO_SLOT
                                     \/ k = 1 /\ ctl = "sdi" /\ udi_control'[k].sdi = sdi
  <2>1. CASE ctl = "node"
    <3>1. \A k \in DOMAIN udi_control' :
            \/ k = 1 /\ udi_control'[k].sdi = NO_SLOT
            \/ k - 1 \in DOMAIN udi_control /\ udi_control'[k] = udi_control[k - 1]
      BY <2>1, NodeFacts DEF At
    <3> QED
      BY <2>1, <3>1
  <2>2. CASE ctl # "node"
    <3>1. udi_control[1] \in Node /\ 1 \in DOMAIN udi_control
      BY <1>1, <2>2, FilledNodeFacts, ListFacts DEF NodePc, IInv
    <3>2. \/ udi_control'[1].sdi = udi_control[1].sdi
          \/ ctl = "sdi" /\ udi_control'[1].sdi = sdi
      BY <1>1, <2>2, <3>1, FilledNodeFacts DEF NodePc, Node
    <3>3. /\ DOMAIN udi_control' = DOMAIN udi_control
          /\ \A k \in DOMAIN udi_control' : k # 1 => udi_control'[k] = udi_control[k]
      BY <1>1, <2>2, FilledNodeFacts DEF NodePc
    <3> QED
      BY <3>1, <3>2, <3>3
  <2> QED
    BY <2>1, <2>2
<1>4. \A s \in Slot : Owner(s)' => Owner(s) \/ Partial(s)'
  <2>1. \A s \in Slot : Listed(s)' => Listed(s) \/ (s = sdi /\ ctl = "sdi")
    BY <1>3, SlotFacts DEF Listed
  <2>2. \A s : OnChain(s)' <=> OnChain(s)
    BY <1>1 DEF OnChain
  <2> QED
    BY <1>1, <2>1, <2>2 DEF Owner, Partial
<1>5. Pairs' /\ KeysApart'
  <2>1. next' \in Nat /\ next <= next'
    BY <1>1 DEF IInv, Types
  <2> QED
    BY <1>1, <1>4, <2>1, QuietStep DEF Apart, BusyPc, NodePc
<1>6. KeyReserved'
  <2>1. \A s \in Slot : Whole(s)' => Whole(s)
    BY <1>1, <1>4 DEF Whole, Partial, NodePc
  <2> QED
    BY <1>1, <2>1 DEF Apart, KeyReserved, KeyPc, NodePc
<1>7. NodesWhole'
  <2> SUFFICES ASSUME NEW k \in DOMAIN udi_control', HalfFilled(k)'
               PROVE  udi_control'[k].udi = 0 \/ (k = 1 /\ ctl' = "sdi")
    BY DEF NodesWhole
  <2>1. CASE ctl = "node"
    <3>1. CASE k = 1
      BY <2>1, <3>1, NodeFacts DEF At
    <3>2. CASE k # 1
      <4>1. k - 1 \in DOMAIN udi_control /\ udi_control'[k] = udi_control[k - 1]
        BY <2>1, <3>2, NodeFacts DEF At
      <4>2. HalfFilled(k - 1)
        BY <4>1 DEF HalfFilled
      <4> QED
        BY <2>1, <4>1, <4>2 DEF Apart, NodesWhole
    <3> QED
      BY <3>1, <3>2
  <2>2. CASE ctl # "node"
    <3>1. CASE k = 1
      <4>1. CASE ctl = "udi"
        BY <1>1, <3>1, <4>1
      <4>2. CASE ctl = "sdi"
        <5>1. udi_control[1] \in Node /\ udi_control'[1] = [udi_control[1] EXCEPT !.sdi = sdi]
          BY <4>2, FilledNodeFacts, ListFacts DEF IInv
        <5>2. udi_control'[1].sdi = sdi
          BY <5>1 DEF Node
        <5> QED
          BY <1>2, <3>1, <5>2 DEF HalfFilled
      <4> QED
        BY <1>1, <2>2, <4>1, <4>2 DEF NodePc
    <3>2. CASE k # 1
      <4>1. k \in DOMAIN udi_control /\ udi_control'[k] = udi_control[k]
        BY <1>1, <2>2, <3>2, FilledNodeFacts DEF NodePc
      <4>2. HalfFilled(k)
        BY <4>1 DEF HalfFilled
      <4> QED
        BY <3>2, <4>1, <4>2 DEF Apart, NodesWhole
    <3> QED
      BY <3>1, <3>2
  <2> QED
    BY <2>1, <2>2
<1>8. InWork'
  <2>1. ctl = "sdi" => Listed(sdi)'
    <3>1. ctl = "sdi" => /\ udi_control[1] \in Node /\ 1 \in DOMAIN udi_control'
                         /\ udi_control'[1] = [udi_control[1] EXCEPT !.sdi = sdi]
      BY FilledNodeFacts, ListFacts DEF IInv
    <3> QED
      BY <1>1, <3>1 DEF Listed, Node
  <2> QED
    BY <1>1, <2>1 DEF Apart, InWork, DestroyPc, LinkedPc, NodePc
<1> QED
  BY <1>5, <1>6, <1>7, <1>8 DEF Apart

(* The slot in work gets its key. *)
LEMMA InitKeyApart ==
  ASSUME IInv, Apart, InitKey
  PROVE  Apart'
<1>1. /\ ctl = "key" /\ ctl' = "stack" /\ pdi' = [pdi EXCEPT ![sdi] = pkey]
      /\ UNCHANGED <<udi_control, calls, cache, next, sdi_address_stack, pkey, sdi>>
      /\ pdi \in [Slot -> Nat] /\ sdi \in Slot
  BY DEF InitKey, At, Goto, listVars, runVars, locals, IInv, Types
<1>2. sdi # MONITOR_DATA
  BY <1>1 DEF IInv, MonitorSlot
<1>3. \A s \in Slot : Whole(s)' => Whole(s) /\ pdi'[s] = pdi[s]
  BY <1>1, SameOwners DEF Whole, Partial
<1>4. Pairs' /\ KeysApart'
  <2>1. next' \in Nat /\ next <= next' /\ pdi'[MONITOR_DATA] = pdi[MONITOR_DATA]
    BY <1>1, <1>2 DEF IInv, Types
  <2> QED
    BY <1>1, <1>3, <2>1, OwnersKept DEF Apart, GivenUp, Blank
<1>5. KeyReserved'
  BY <1>1, <1>3 DEF Apart, KeyReserved, KeyPc
<1>6. NodesWhole'
  BY <1>1 DEF Apart, NodesWhole, HalfFilled
<1>7. InWork'
  BY <1>1 DEF Apart, InWork, DestroyPc, LinkedPc, Listed
<1> QED
  BY <1>4, <1>5, <1>6, <1>7 DEF Apart

(* The slot in work gets its stack, and the entry it had from the cache goes. *)
LEMMA InitStackApart ==
  ASSUME IInv, Apart, InitStack
  PROVE  Apart'
<1>1. /\ ctl = "stack" /\ ctl' = "context" /\ cache' = CacheWithoutHead
      /\ sdi_address_stack' = [sdi_address_stack EXCEPT ![sdi] =
                                 IF cache = <<>> THEN pkey ELSE Head(cache).stack]
      /\ UNCHANGED <<udi_control, calls, next, pdi, pkey, sdi>>
  BY DEF InitStack, At, Goto, runVars, locals
<1>2. sdi_address_stack \in [Slot -> Nat] /\ sdi \in Slot
  BY <1>1 DEF IInv, Types
<1>3. Filled = DOMAIN cache /\ Filled' = DOMAIN cache' /\ \A s : ~GivenUp(s) /\ ~GivenUp(s)'
  BY <1>1 DEF Filled, Blank, GivenUp
<1>4. /\ pdi[sdi] = pkey /\ 1 < pkey /\ pkey < next
      /\ cache # <<>> => 1 \in Filled /\ cache[1].key = pkey /\ Head(cache) = cache[1]
      /\ \A s \in Slot : Whole(s) => pdi[s] # pkey
  BY <1>1, <1>3, HeadOfCache DEF Apart, KeyReserved, KeyPc
<1>5. sdi_address_stack'[sdi] = pkey
  BY <1>1, <1>2, <1>4 DEF Apart, Pairs
<1>6. \A s \in Slot : Whole(s)' => s = sdi \/ (Whole(s) /\ sdi_address_stack'[s] = sdi_address_stack[s])
  BY <1>1, <1>2, SameOwners DEF Whole, Partial
<1>7. \A k \in Filled' : k + 1 \in Filled /\ cache'[k] = cache[k + 1]
  BY <1>1, <1>3, TailFacts
<1>8. \A j, k \in Filled' : j \in Nat /\ k \in Nat /\ j # 0 /\ k # 0
  BY <1>1, <1>3, TailFacts
<1>9. Pairs'
  <2>1. \A s \in Slot : Whole(s)' => /\ sdi_address_stack'[s] = pdi'[s]
                                    /\ 1 < pdi'[s] /\ pdi'[s] < next'
    BY <1>1, <1>4, <1>5, <1>6 DEF Apart, Pairs
  <2> QED
    BY <1>1, <1>7, <2>1 DEF Apart, Pairs
<1>10. KeysApart'
  <2>1. \A r, s \in Slot : Whole(r)' /\ Whole(s)' /\ pdi'[r] = pdi'[s] => r = s
    BY <1>1, <1>4, <1>6 DEF Apart, KeysApart
  <2>2. ASSUME NEW k \in Filled' PROVE cache'[k].key # pkey
    <3>1. cache # <<>> /\ k + 1 # 1 /\ k + 1 \in Filled /\ cache'[k] = cache[k + 1]
      BY <1>3, <1>7, <1>8
    <3> QED
      BY <1>4, <3>1 DEF Apart, KeysApart
  <2>3. \A s \in Slot, k \in Filled' : Whole(s)' /\ ~GivenUp(s)' => cache'[k].key # pdi'[s]
    BY <1>1, <1>3, <1>4, <1>6, <1>7, <2>2 DEF Apart, KeysApart
  <2>4. \A j, k \in Filled' : cache'[j].key = cache'[k].key => j = k
    BY <1>7, <1>8 DEF Apart, KeysApart
  <2> QED
    BY <2>1, <2>3, <2>4 DEF KeysApart
<1>11. KeyReserved'
  BY <1>1 DEF KeyReserved, KeyPc
<1>12. NodesWhole'
  BY <1>1 DEF Apart, NodesWhole, HalfFilled
<1>13. InWork'
  <2>1. Listed(sdi)'
    BY <1>1 DEF Listed, Apart, InWork, LinkedPc
  <2> QED
    BY <1>1, <2>1 DEF Apart, InWork, DestroyPc, LinkedPc
<1> QED
  BY <1>9, <1>10, <1>11, <1>12, <1>13 DEF Apart

(* An entry is linked: it is not filled in, and the others move up.  Then it *)
(* is filled in with what the slot in work has.                              *)
LEMMA EntryApart ==
  ASSUME IInv, Apart, DestroyCache \/ RewindCache
  PROVE  Apart'
<1>1. /\ UNCHANGED <<udi_control, calls, next, pdi, sdi_address_stack, sdi>>
      /\ \/ ctl \in {"d_cache", "r_cache"} /\ LinkEntry /\ ctl' \in {"d_fill", "r_fill"}
         \/ ctl \in {"d_fill", "r_fill"} /\ FillEntry(sdi) /\ ctl' \in {"d_key", "r_unlist"}
      /\ ctl \in DestroyPc <=> ctl' \in DestroyPc
      /\ ctl \in {"d_cache", "d_fill"} <=> ctl' \in {"d_fill", "d_key"}
  BY DEF DestroyCache, RewindCache, slotVars, runVars, locals, At, Goto, DestroyPc
<1>2. \A s \in Slot : Whole(s)' <=> Whole(s)
  BY <1>1, SameOwners DEF Whole, Partial
<1>3. NodesWhole'
  BY <1>1 DEF Apart, NodesWhole, HalfFilled
<1>4. InWork'
  BY <1>1 DEF Apart, InWork, DestroyPc, LinkedPc, Listed, OnChain
<1>5. KeyReserved'
  BY <1>1 DEF KeyReserved, KeyPc
<1>6. Pairs' /\ KeysApart'
  <2>1. CASE ctl \in {"d_cache", "r_cache"} /\ LinkEntry /\ ctl' \in {"d_fill", "r_fill"}
    <3>2. Filled = DOMAIN cache /\ \A s : ~GivenUp(s) /\ ~GivenUp(s)'
      BY <2>1 DEF Filled, Blank, GivenUp
    <3>3. \A k \in Filled' : k - 1 \in Filled /\ cache'[k] = cache[k - 1] /\ k \in Nat
      BY <2>1, <3>2, LinkFacts DEF Filled, Blank
    <3>4. Pairs'
      BY <1>1, <1>2, <3>3 DEF Apart, Pairs
    <3>5. KeysApart'
      <4>1. \A r, s \in Slot : Whole(r)' /\ Whole(s)' /\ pdi'[r] = pdi'[s] => r = s
        BY <1>1, <1>2 DEF Apart, KeysApart
      <4>2. \A s \in Slot, k \in Filled' : Whole(s)' /\ ~GivenUp(s)' => cache'[k].key # pdi'[s]
        BY <1>1, <1>2, <3>2, <3>3 DEF Apart, KeysApart
      <4>3. \A j, k \in Filled' : cache'[j].key = cache'[k].key => j = k
        BY <3>3 DEF Apart, KeysApart
      <4> QED
        BY <4>1, <4>2, <4>3 DEF KeysApart
    <3> QED
      BY <3>4, <3>5
  <2>2. CASE ctl \in {"d_fill", "r_fill"} /\ FillEntry(sdi) /\ ctl' \in {"d_key", "r_unlist"}
    <3>1. cache # <<>> /\ sdi \in Slot
      BY <2>2 DEF IInv, BeingFilled, Types
    <3>2. /\ DOMAIN cache' = DOMAIN cache /\ 1 \in DOMAIN cache'
          /\ cache'[1] = [key |-> pdi[sdi], stack |-> sdi_address_stack[sdi]]
          /\ \A k \in DOMAIN cache' : k # 1 => cache'[k] = cache[k]
      BY <2>2, <3>1, FillFacts
    <3>3. \A k \in Filled' : k # 1 => k \in Filled /\ cache'[k] = cache[k]
      BY <2>2, <3>2 DEF Filled, Blank
    <3>4. Whole(sdi)
      <4>1. Owner(sdi)
        <5>1. CASE ctl = "d_fill"
          BY <5>1 DEF Apart, InWork, LinkedPc, Owner
        <5>2. CASE ctl = "r_fill"
          <6>1. Rewinding
            BY <5>2 DEF Rewinding, RewindPc
          <6>2. Len(calls) \in DOMAIN calls /\ calls[Len(calls)] = sdi
            BY <6>1, RewindingFacts, ChainFacts DEF IInv
          <6> QED
            BY <6>2 DEF Owner, OnChain
        <5> QED
          BY <2>2, <5>1, <5>2
      <4> QED
        BY <2>2, <4>1 DEF Whole, Partial
    <3>5. \A s : ~GivenUp(s) /\ (GivenUp(s)' <=> s = sdi)
      BY <1>1, <2>2 DEF GivenUp
    <3>6. cache'[1].key = pdi[sdi] /\ cache'[1].stack = sdi_address_stack[sdi]
      BY <3>2
    <3>7. Pairs'
      <4>1. \A k \in Filled' : /\ cache'[k].stack = cache'[k].key
                              /\ 1 < cache'[k].key /\ cache'[k].key < next'
        BY <1>1, <3>1, <3>3, <3>4, <3>6 DEF Apart, Pairs
      <4> QED
        BY <1>1, <1>2, <4>1 DEF Apart, Pairs
    <3>8. KeysApart'
      <4>1. \A r, s \in Slot : Whole(r)' /\ Whole(s)' /\ pdi'[r] = pdi'[s] => r = s
        BY <1>1, <1>2 DEF Apart, KeysApart
      <4>2. \A s \in Slot, k \in Filled' : Whole(s)' /\ ~GivenUp(s)' => cache'[k].key # pdi'[s]
        BY <1>1, <1>2, <3>1, <3>3, <3>4, <3>5, <3>6 DEF Apart, KeysApart
      <4>3. \A j, k \in Filled' : cache'[j].key = cache'[k].key => j = k
        BY <3>1, <3>3, <3>4, <3>5, <3>6 DEF Apart, KeysApart
      <4> QED
        BY <4>1, <4>2, <4>3 DEF KeysApart
    <3> QED
      BY <3>7, <3>8
  <2> QED
    BY <1>1, <2>1, <2>2
<1> QED
  BY <1>3, <1>4, <1>5, <1>6 DEF Apart

(* The slot in work, whose key is in the cache, gives it up. *)
LEMMA DestroyKeyApart ==
  ASSUME IInv, Apart, DestroyKey
  PROVE  Apart'
<1>1. /\ ctl = "d_key" /\ ctl' = "d_unlist" /\ pdi' = [pdi EXCEPT ![sdi] = 0]
      /\ UNCHANGED <<udi_control, calls, cache, next, sdi_address_stack, sdi>>
      /\ pdi \in [Slot -> Nat] /\ sdi \in Slot
  BY DEF DestroyKey, At, Goto, listVars, runVars, locals, IInv, Types
<1>2. sdi # MONITOR_DATA
  BY <1>1 DEF Apart, InWork, LinkedPc, Listed, IInv, MonitorSlot
<1>3. \A s \in Slot : Whole(s)' => Whole(s) /\ pdi'[s] = pdi[s] /\ s # sdi
  BY <1>1, SameOwners DEF Whole, Partial
<1>4. Pairs' /\ KeysApart'
  <2>1. next' \in Nat /\ next <= next' /\ pdi'[MONITOR_DATA] = pdi[MONITOR_DATA]
    BY <1>1, <1>2 DEF IInv, Types
  <2> QED
    BY <1>1, <1>3, <2>1, OwnersKept DEF Apart, GivenUp, Blank
<1>5. KeyReserved'
  BY <1>1 DEF KeyReserved, KeyPc
<1>6. NodesWhole'
  BY <1>1 DEF Apart, NodesWhole, HalfFilled
<1>7. InWork'
  BY <1>1 DEF Apart, InWork, DestroyPc, LinkedPc, Listed, OnChain
<1> QED
  BY <1>4, <1>5, <1>6, <1>7 DEF Apart

(* A slot that has lost its node, and is on no chain, is nobody's. *)
LEMMA DisownedStep ==
  ASSUME IInv, Apart, ctl \in {"d_unlist", "r_unlist", "r_status", "r_resume"},
         ctl' \notin KeyPc \cup LinkedPc \cup DestroyPc \cup {"e_switch", "corrupt"},
         UNCHANGED <<cache, next, pdi, sdi_address_stack>>,
         \A k \in DOMAIN udi_control' : \E j \in DOMAIN udi_control :
           udi_control'[k] = udi_control[j],
         \A s : OnChain(s)' => OnChain(s),
         \A s : s = sdi /\ Owner(s)' => GivenUp(s) /\ GivenUp(s)'
  PROVE  Apart'
<1>1. \A s : Owner(s)' => Owner(s)
  BY DEF Owner, Listed
<1>2. \A s \in Slot : Whole(s)' => Whole(s)
  BY <1>1 DEF Whole, Partial, GivenUp
<1>3. \A s \in Slot : Whole(s)' /\ GivenUp(s) => GivenUp(s)'
  BY DEF Whole, GivenUp
<1>4. Pairs' /\ KeysApart'
  <2>1. next' \in Nat /\ next <= next' /\ pdi'[MONITOR_DATA] = pdi[MONITOR_DATA]
    BY DEF IInv, Types
  <2> QED
    BY <1>2, <1>3, <2>1, OwnersKept DEF Apart, Blank
<1>5. KeyReserved'
  BY DEF KeyReserved, KeyPc
<1>6. NodesWhole'
  <2> SUFFICES ASSUME NEW k \in DOMAIN udi_control', HalfFilled(k)'
               PROVE  udi_control'[k].udi = 0
    BY DEF NodesWhole
  <2>1. PICK j \in DOMAIN udi_control : udi_control'[k] = udi_control[j]
    OBVIOUS
  <2>2. HalfFilled(j)
    BY <2>1 DEF HalfFilled
  <2> QED
    BY <2>1, <2>2 DEF Apart, NodesWhole
<1>7. InWork'
  BY DEF InWork
<1> QED
  BY <1>4, <1>5, <1>6, <1>7 DEF Apart

(* What Unlist does to the control: it goes on, or the free() faults. *)
LEMMA UnlistControl ==
  ASSUME IInv, NEW there, Unlist(sdi, there)
  PROVE  ctl' \in {there, "handler", "killed"}
BY UnlistFacts DEF RaiseSegv, Goto

(* The rewound slot leaves the chain. *)
LEMMA CutApart ==
  ASSUME IInv, Rewinding, Cut
  PROVE  \A s : OnChain(s)' => OnChain(s) /\ s # sdi
BY RewindingFacts, ChainCut DEF Cut

(* The destroyed domain leaves the list. *)
LEMMA DestroyUnlistApart ==
  ASSUME IInv, Apart, DestroyUnlist
  PROVE  Apart'
<1>1. /\ ctl = "d_unlist" /\ Unlist(sdi, "app")
      /\ UNCHANGED <<calls, cache, next, pdi, sdi_address_stack>>
  BY DEF DestroyUnlist, At, slotVars, runVars
<1>2. ctl' \in {"app", "handler", "killed"}
  BY <1>1, UnlistControl
<1>3. ~OnChain(sdi)
  BY <1>1 DEF Apart, InWork, DestroyPc
<1>4. \A s : OnChain(s)' => OnChain(s)
  BY <1>1 DEF OnChain
<1>5. \A s : s = sdi => ~Owner(s)'
  BY <1>1, <1>3, UnlistFacts DEF Owner, Listed, OnChain
<1>6. \A k \in DOMAIN udi_control' : \E j \in DOMAIN udi_control : udi_control'[k] = udi_control[j]
  BY <1>1, UnlistFacts
<1>7. ctl' \notin KeyPc \cup LinkedPc \cup DestroyPc \cup {"e_switch", "corrupt"}
  BY <1>2 DEF KeyPc, LinkedPc, DestroyPc
<1> QED
  BY <1>1, <1>4, <1>5, <1>6, <1>7, DisownedStep

(* So does the rewound one, which stays on the chain until it is cut. *)
LEMMA RewindUnlistApart ==
  ASSUME IInv, Apart, RewindUnlist
  PROVE  Apart'
<1>1. /\ ctl = "r_unlist" /\ Unlist(sdi, "r_status") /\ sdi' = sdi
      /\ UNCHANGED <<cache, next, pdi, sdi_address_stack>>
      /\ IF ctl' = "r_status" THEN UNCHANGED calls ELSE Cut
  BY DEF RewindUnlist, At, locals
<1>2. Rewinding
  BY <1>1 DEF Rewinding, RewindPc
<1>3. ctl' \in {"r_status", "handler", "killed"}
  BY <1>1, UnlistControl
<1>4. \A s : OnChain(s)' => OnChain(s) /\ (s = sdi => ctl' = "r_status")
  <2>1. CASE ctl' = "r_status"
    BY <1>1, <2>1 DEF OnChain
  <2>2. CASE ctl' # "r_status"
    BY <1>1, <1>2, <2>2, CutApart
  <2> QED
    BY <2>1, <2>2
<1>5. \A s : s = sdi /\ Owner(s)' => GivenUp(s) /\ GivenUp(s)'
  BY <1>1, <1>2, <1>4, UnlistFacts DEF Owner, Listed, GivenUp
<1>6. \A k \in DOMAIN udi_control' : \E j \in DOMAIN udi_control : udi_control'[k] = udi_control[j]
  BY <1>1, UnlistFacts
<1>7. ctl' \notin KeyPc \cup LinkedPc \cup DestroyPc \cup {"e_switch", "corrupt"}
  BY <1>3 DEF KeyPc, LinkedPc, DestroyPc
<1> QED
  BY <1>1, <1>4, <1>5, <1>6, <1>7, DisownedStep

(* The slot is free again, and then the parent goes on. *)
LEMMA RewindEndApart ==
  ASSUME IInv, Apart,
         RewindStatus \/ RewindResume \/ (Alarm /\ ctl \in {"r_status", "r_resume"})
  PROVE  Apart'
<1>1. /\ ctl \in {"r_status", "r_resume"}
      /\ UNCHANGED <<udi_control, cache, next, pdi, sdi_address_stack>>
      /\ \/ ctl' = "r_resume" /\ UNCHANGED <<calls, sdi>>
         \/ ctl' \in {"app", "handler"} /\ Cut
  BY DEF RewindStatus, RewindResume, Alarm, ReturnFrom, At, Goto, listVars, slotVars, runVars,
         locals
<1>2. Rewinding
  BY <1>1 DEF Rewinding, RewindPc
<1>3. ~Listed(sdi)
  BY <1>1 DEF IInv, ListedOnce, Listed
<1>4. \A s : OnChain(s)' => OnChain(s) /\ (s = sdi => ctl' = "r_resume" /\ sdi' = sdi)
  BY <1>1, <1>2, CutApart DEF OnChain
<1>5. \A s : s = sdi /\ Owner(s)' => GivenUp(s) /\ GivenUp(s)'
  BY <1>1, <1>3, <1>4 DEF Owner, Listed, GivenUp
<1>6. ctl' \notin KeyPc \cup LinkedPc \cup DestroyPc \cup {"e_switch", "corrupt"}
  BY <1>1 DEF KeyPc, LinkedPc, DestroyPc
<1> QED
  BY <1>1, <1>4, <1>5, <1>6, DisownedStep

(* A timer at any other point that is not half way. *)
LEMMA AlarmApart ==
  ASSUME IInv, Apart, Alarm, ~torn'
  PROVE  Apart'
<1>1. /\ ctl \notin HalfUpdated /\ ctl' = "handler" /\ Cut
      /\ UNCHANGED <<udi_control, cache, next, pdi, sdi_address_stack>>
  BY DEF Alarm, Goto, listVars
<1>2. CASE ctl \in {"r_status", "r_resume"}
  BY <1>2, RewindEndApart
<1>3. CASE ctl \notin {"r_status", "r_resume"}
  <2>1. ctl \notin BusyPc \cup {"sdi"} /\ ctl' \notin KeyPc
    BY <1>1, <1>3 DEF BusyPc, HalfUpdated, KeyPc
  <2>2. \A s : OnChain(s)' => OnChain(s)
    <3>1. CASE Rewinding
      BY <1>1, <3>1, CutApart
    <3>2. CASE ~Rewinding
      BY <1>1, <3>2 DEF Cut, OnChain
    <3> QED
      BY <3>1, <3>2
  <2>3. \A s \in Slot : Owner(s)' => Owner(s)
    BY <1>1, <2>2 DEF Owner, Listed
  <2>4. InWork'
    BY <1>1 DEF InWork, LinkedPc, DestroyPc
  <2> QED
    BY <1>1, <2>1, <2>3, <2>4, PlainStep
<1> QED
  BY <1>2, <1>3

(* A step that changes nothing. *)
LEMMA StutterApart ==
  ASSUME Apart, UNCHANGED vars
  PROVE  Apart'
<1>1. UNCHANGED <<udi_control, calls, cache, next, pdi, sdi_address_stack, ctl, sdi, pkey>>
  BY DEF vars, listVars, slotVars, runVars, locals
<1>2. (\A s : Whole(s)' <=> Whole(s)) /\ (\A s : GivenUp(s)' <=> GivenUp(s)) /\ Filled' = Filled
  BY <1>1 DEF Whole, Owner, Listed, OnChain, Partial, GivenUp, Filled, Blank
<1>3. Pairs' /\ KeysApart' /\ KeyReserved'
  BY <1>1, <1>2 DEF Apart, Pairs, KeysApart, KeyReserved
<1>4. NodesWhole' /\ InWork'
  BY <1>1 DEF Apart, NodesWhole, HalfFilled, InWork, Listed, OnChain
<1> QED
  BY <1>3, <1>4 DEF Apart

(* The first tables: the root has its key and its stack. *)
LEMMA InitApart == Init => Apart
<1> SUFFICES ASSUME Init PROVE Apart
  OBVIOUS
<1>1. ctl = "app" /\ udi_control = <<>> /\ cache = <<>> /\ next = 3 /\ calls = <<ROOT_DOMAIN>>
  BY DEF Init
<1>2. \A s : Owner(s) => s = ROOT_DOMAIN
  BY <1>1 DEF Owner, Listed, OnChain
<1>3. /\ pdi[MONITOR_DATA] = 1 /\ pdi[ROOT_DOMAIN] = 2 /\ sdi_address_stack[ROOT_DOMAIN] = 2
  BY SlotFacts DEF Init, MONITOR_DATA, ROOT_DOMAIN
<1>4. Filled = {}
  BY <1>1 DEF Filled
<1>5. Pairs /\ KeysApart
  BY <1>1, <1>2, <1>3, <1>4 DEF Pairs, KeysApart, Whole
<1>6. KeyReserved /\ NodesWhole
  BY <1>1 DEF KeyReserved, KeyPc, NodesWhole
<1>7. InWork
  BY <1>1 DEF InWork, LinkedPc, DestroyPc
<1> QED
  BY <1>5, <1>6, <1>7 DEF Apart

(* Unless a timer leaves the tables half updated, every step keeps what a    *)
(* domain owns apart.                                                        *)
LEMMA NextApart ==
  ASSUME IInv, ~torn => Apart, [Next]_vars
  PROVE  ~torn' => Apart'
<1> SUFFICES ASSUME ~torn' PROVE Apart'
  OBVIOUS
<1>1. CASE Alarm
  <2>1. ~torn
    BY <1>1 DEF Alarm
  <2> QED
    BY <1>1, <2>1, AlarmApart
<1>2. CASE ~Alarm
  <2>1. torn' = torn
    BY <1>2
    DEF Next, LibraryStep, Recovery, sdrad_init, sdrad_deinit, sdrad_enter, sdrad_destroy,
        sdrad_exit, InitSlot, InitNode, InitKey, InitStack, InitContext, EnterActive, EnterSwitch,
        ExitHeap, DestroyCache, DestroyKey, DestroyUnlist, Violation, sdrad_signal_handler,
        sdrad_abnormal_domain_exit, RewindStart, RewindCache, RewindUnlist, RewindStatus,
        RewindResume, CallWithoutSlot, Ended, vars
  <2>2. Apart
    BY <2>1
  <2>3. ASSUME NEW u \in Udi,
               sdrad_init(u) \/ sdrad_deinit(u) \/ sdrad_enter(u) \/ sdrad_destroy(u)
        PROVE  Apart'
    BY <2>2, <2>3, sdrad_initApart, ContextApart, sdrad_enterApart, sdrad_destroyApart
  <2>4. CASE LibraryStep
    BY <2>2, <2>4, InitSlotApart, InitNodeApart, InitKeyApart, InitStackApart, ContextApart,
       EnterActiveApart, EnterSwitchApart, NotingApart, EntryApart, DestroyKeyApart,
       DestroyUnlistApart
    DEF LibraryStep
  <2>5. CASE Recovery
    BY <2>2, <2>5, NotingApart, EntryApart, RewindUnlistApart, RewindEndApart DEF Recovery
  <2>6. CASE sdrad_exit \/ Violation
    BY <2>2, <2>6, sdrad_exitApart, NotingApart
  <2>7. CASE Ended \/ UNCHANGED vars
    BY <2>2, <2>7, StutterApart DEF Ended
  <2>8. \A u \in Udi : ~CallWithoutSlot(u)
    BY <2>2, NoCallWithoutSlot
  <2> QED
    BY <1>2, <2>3, <2>4, <2>5, <2>6, <2>7, <2>8 DEF Next
<1> QED
  BY <1>1, <1>2

(* The tables are within bounds, and what a domain owns is its own until a   *)
(* timer falls between two writes of HalfUpdated.                            *)
THEOREM SignalOwnersInvariance == Spec => []OInv
<1>1. Init => OInv
  BY InitBInv, InitApart DEF OInv
<1>2. OInv /\ [Next]_vars => OInv'
  BY NextIInv, KeysBoundedKept, UdiBoundedKept, NextApart DEF OInv, BInv
<1> QED
  BY <1>1, <1>2, PTL DEF Spec

(* Whatever a timer interrupts, the tables hold keys and stacks that were    *)
(* allocated and udi that were asked for, and the jmp_bufs levels of a chain *)
(* that fits the table.                                                      *)
THEOREM SignalsTypeCorrect == Spec => []TypeOK
<1>1. OInv => TypeOK
  BY BoundsAreTypes DEF OInv
<1> QED
  BY <1>1, SignalOwnersInvariance, PTL

(* A timer may fall between any two writes of the library but the eight of   *)
(* HalfUpdated: the domains that run keep keys and stacks of their own, and  *)
(* none of them is in the cache.                                             *)
THEOREM ChainStaysApart == Spec => []ChainApart
<1>1. OInv => ChainApart
  <2> SUFFICES ASSUME IInv, Apart
               PROVE  /\ ctl # "corrupt"
                      /\ \A i \in DOMAIN calls :
                           /\ sdi_address_stack[calls[i]] # NULL
                           /\ pdi[calls[i]] # pdi[MONITOR_DATA]
                           /\ \A j \in DOMAIN calls : j # i =>
                                /\ sdi_address_stack[calls[j]] # sdi_address_stack[calls[i]]
                                /\ pdi[calls[j]] # pdi[calls[i]]
                           /\ App => \A k \in DOMAIN cache :
                                /\ cache[k].stack # sdi_address_stack[calls[i]]
                                /\ cache[k].key # pdi[calls[i]]
    BY DEF ChainApart, OInv, BInv
  <2>1. \A i \in DOMAIN calls : calls[i] \in Slot /\ Whole(calls[i])
    <3> TAKE i \in DOMAIN calls
    <3>1. calls[i] \in Slot /\ OnChain(calls[i])
      BY ChainFacts DEF IInv, OnChain
    <3>2. ~Partial(calls[i])
      BY DEF Partial, IInv, Chain, InitPc, Apart, InWork, DestroyPc, OnChain
    <3> QED
      BY <3>1, <3>2 DEF Whole, Owner
  <2>2. \A i, j \in DOMAIN calls : calls[i] = calls[j] => i = j
    BY DEF IInv, Chain
  <2>3. \A i \in DOMAIN calls : sdi_address_stack[calls[i]] = pdi[calls[i]] /\ 1 < pdi[calls[i]]
    BY <2>1 DEF Apart, Pairs
  <2>4. \A i, j \in DOMAIN calls : j # i => pdi[calls[j]] # pdi[calls[i]]
    BY <2>1, <2>2 DEF Apart, KeysApart
  <2>5. ASSUME NEW i \in DOMAIN calls, NEW k \in DOMAIN cache, App
        PROVE  cache[k].stack = cache[k].key /\ cache[k].key # pdi[calls[i]]
    <3>1. ctl \notin BusyPc
      BY <2>5 DEF App, BusyPc
    <3>2. k \in Filled /\ ~GivenUp(calls[i])
      BY <3>1, NotBusy
    <3> QED
      BY <2>1, <3>2 DEF Apart, Pairs, KeysApart
  <2>6. ctl # "corrupt" /\ pdi[MONITOR_DATA] = 1
    BY DEF Apart, InWork, Pairs
  <2> QED
    BY <2>3, <2>4, <2>5, <2>6 DEF NULL
<1> QED
  BY <1>1, SignalOwnersInvariance, PTL
=============================================================================
