------------------------- MODULE SdradSignals_proofs --------------------------
(***************************************************************************)
(* What a signal between any two writes of the library cannot break, for   *)
(* every number of slots, keys, udi and faults.                            *)
(***************************************************************************)
EXTENDS SdradSignals, ListLemmas

-----------------------------------------------------------------------------
(* The invariant *)

Running == {"app", "e_switch"} \cup InitPc \cup DestroyPc

(* What TypeOK says, without its bounds on the numbers. *)
Types ==
  /\ status \subseteq Slot
  /\ udi_control \in Seq([udi : Nat, sdi : Slot \cup {NO_SLOT}])
  /\ pdi \in [Slot -> Nat] /\ sdi_address_stack \in [Slot -> Nat]
  /\ cache \in Seq([key : Nat, stack : Nat])
  /\ sdi_parent_domain \in [Slot -> Slot] /\ sdi_saved_ex \in [Slot -> BOOLEAN]
  /\ sdi_buffer \in [Slot -> Nat]
  /\ active_domain \in Slot /\ tlsf_structure \in Slot
  /\ mask \subseteq {"SIGSEGV", "SIGALRM"}
  /\ ctl \in Control
  /\ udi \in Nat /\ sdi \in Slot /\ pkey \in Nat /\ next \in Nat
  /\ calls \in Seq(Slot) /\ ready \subseteq Slot

(* The key of the root domain is never given to another, cached or used: a   *)
(* fault is taken for the root's only if it is.                              *)
RootKeyKept ==
  /\ \A s \in Slot : pdi[s] = 2 <=> s = ROOT_DOMAIN
  /\ \A k \in DOMAIN cache : cache[k].key # 2
  /\ pkey # 2 /\ next > 2
  /\ sdi # ROOT_DOMAIN
  /\ \A k \in DOMAIN udi_control : udi_control[k].sdi # ROOT_DOMAIN
  /\ ctl = "rewind" => active_domain # ROOT_DOMAIN

(* A node, and an entry, is there while it is filled in. *)
NodePc  == {"node", "udi", "sdi"}
BeingFilled ==
  /\ ctl \in {"udi", "sdi"} => udi_control # <<>>
  /\ ctl \in {"d_fill", "r_fill"} => cache # <<>>

(* The monitor's slot is never a domain: it is not listed, so it is not      *)
(* entered, and a rewind does not free it.                                   *)
MonitorSlot ==
  /\ MONITOR_DATA \in status /\ ROOT_DOMAIN \in status
  /\ \A k \in DOMAIN udi_control : udi_control[k].sdi # MONITOR_DATA
  /\ \A i \in DOMAIN calls : calls[i] # MONITOR_DATA
  /\ ctl \in NodePc \cup {"key", "stack", "e_active"} => sdi # MONITOR_DATA
  /\ Rewinding => sdi # MONITOR_DATA

(* A slot is listed once, while it is in use. *)
HalfFilled(k) == udi_control[k].sdi = NO_SLOT
ListedOnce ==
  /\ \A j, k \in DOMAIN udi_control :
       j # k /\ udi_control[j].sdi = udi_control[k].sdi => HalfFilled(j)
  /\ \A k \in DOMAIN udi_control : udi_control[k].sdi \in status \/ HalfFilled(k)
  /\ ctl \in NodePc \cup {"r_status", "r_resume"} =>
       \A k \in DOMAIN udi_control : udi_control[k].sdi # sdi
  /\ ctl \in (InitPc \ {"slot"}) \cup {"e_active"} => sdi \in status

(* The call chain, as the parents and the saved frames have it. *)
Chain ==
  /\ Len(calls) > 0 /\ calls[1] = ROOT_DOMAIN
  /\ \A i, j \in DOMAIN calls : calls[i] = calls[j] => i = j
  /\ \A i \in DOMAIN calls : i > 1 =>
       /\ sdi_parent_domain[calls[i]] = calls[i - 1]
       /\ sdi_buffer[calls[i]] = i - 1
  /\ \A i \in DOMAIN calls : calls[i] \in status \/ (ctl = "r_resume" /\ i = Len(calls))
  /\ IF Rewinding
       THEN calls[Len(calls)] = sdi /\ active_domain = sdi_parent_domain[sdi]
       ELSE ctl # "corrupt" => calls[Len(calls)] = active_domain
  /\ ctl \in InitPc \ {"slot"} => \A i \in DOMAIN calls : calls[i] # sdi

(* A saved frame is on the chain, in the domain that made the saver. *)
FrameOf(s) ==
  /\ sdi_buffer[s] <= Len(calls)
  /\ s \in ready /\ sdi_buffer[s] # 0 => calls[sdi_buffer[s]] = sdi_parent_domain[s]

Frames ==
  /\ \A s \in Slot : FrameOf(s)
  /\ ctl = "e_active" =>
       /\ sdi_buffer[sdi] = Len(calls) /\ sdi_parent_domain[sdi] = calls[Len(calls)]
       /\ \A i \in DOMAIN calls : calls[i] # sdi
  /\ ctl \in NodePc \cup {"key", "stack"} => sdi \notin ready

HeapInv ==
  /\ ctl \in Running => tlsf_structure = active_domain
  /\ ctl = "e_active" => tlsf_structure = sdi

IInv ==
  Types /\ RootKeyKept /\ BeingFilled /\ MonitorSlot /\ ListedOnce /\ Chain /\ Frames
  /\ HeapInv /\ SegvDeliverable

-----------------------------------------------------------------------------
(* What the invariant says of what the steps read *)

Node  == [udi : Nat, sdi : Slot \cup {NO_SLOT}]
Entry == [key : Nat, stack : Nat]

(* The constants, as the proofs use them. *)
LEMMA SlotFacts ==
  /\ Slot \subseteq Nat /\ Udi \subseteq Nat
  /\ MONITOR_DATA \in Slot /\ ROOT_DOMAIN \in Slot
  /\ NO_SLOT \in Nat /\ NO_SLOT \notin Slot
BY SignalsAssumption DEF Slot, MONITOR_DATA, ROOT_DOMAIN, NO_SLOT

(* The nodes of the list. *)
LEMMA ListFacts ==
  ASSUME Types
  PROVE  /\ Len(udi_control) \in Nat /\ DOMAIN udi_control = 1 .. Len(udi_control)
         /\ \A k \in DOMAIN udi_control : 
              udi_control[k] \in Node /\ (udi_control[k].sdi \in Slot \/ HalfFilled(k))
<1>1. udi_control \in Seq(Node)
  BY DEF Types, Node
<1>2. Len(udi_control) \in Nat /\ DOMAIN udi_control = 1 .. Len(udi_control)
  BY <1>1, LenProperties
<1>3. \A k \in DOMAIN udi_control : udi_control[k] \in Node
  BY <1>1, <1>2, ElementOfSeq
<1> QED
  BY <1>2, <1>3 DEF Node, HalfFilled

(* The entries of the cache. *)
LEMMA CacheFacts ==
  ASSUME Types
  PROVE  /\ Len(cache) \in Nat /\ DOMAIN cache = 1 .. Len(cache)
         /\ \A k \in DOMAIN cache : cache[k] \in Entry
<1>1. cache \in Seq(Entry)
  BY DEF Types, Entry
<1>2. Len(cache) \in Nat /\ DOMAIN cache = 1 .. Len(cache)
  BY <1>1, LenProperties
<1> QED
  BY <1>1, <1>2, ElementOfSeq

(* The slots on the call chain. *)
LEMMA ChainFacts ==
  ASSUME Types
  PROVE  /\ Len(calls) \in Nat /\ DOMAIN calls = 1 .. Len(calls)
         /\ \A i \in DOMAIN calls : calls[i] \in Slot
<1>1. calls \in Seq(Slot)
  BY DEF Types
<1>2. Len(calls) \in Nat /\ DOMAIN calls = 1 .. Len(calls)
  BY <1>1, LenProperties
<1> QED
  BY <1>1, <1>2, ElementOfSeq

(* A slot that the search finds is in the list. *)
LEMMA SearchFacts ==
  ASSUME IInv, NEW u, NEW s \in FoundSlot(u)
  PROVE  /\ \E k \in DOMAIN udi_control : udi_control[k].sdi = s
         /\ s \in Slot /\ s \in status /\ s # ROOT_DOMAIN /\ s # MONITOR_DATA
<1>1. PICK k \in DOMAIN udi_control : udi_control[k].sdi = s /\ ~HalfFilled(k)
  BY DEF FoundSlot, sdrad_search_udi_control, First, HalfFilled
<1>2. s \in Slot
  BY <1>1, ListFacts DEF IInv
<1>3. s \in status
  BY <1>1 DEF IInv, ListedOnce
<1>4. s # ROOT_DOMAIN /\ s # MONITOR_DATA
  BY <1>1 DEF IInv, RootKeyKept, MonitorSlot
<1> QED
  BY <1>1, <1>2, <1>3, <1>4

(* The entry that sdrad_init takes the key from. *)
LEMMA HeadOfCache ==
  ASSUME IInv, cache # <<>>
  PROVE  1 \in DOMAIN cache /\ Head(cache) = cache[1] /\ cache[1] \in Entry
<1>1. cache \in Seq(Entry)
  BY DEF IInv, Types, Entry
<1> QED
  BY <1>1, HeadProperties

(* The list without the node of a slot. *)
LEMMA UnlistFacts ==
  ASSUME IInv, NEW there, Unlist(sdi, there)
  PROVE  /\ udi_control' \in Seq(Node)
         /\ \A i \in DOMAIN udi_control' : \E p \in DOMAIN udi_control :
              udi_control'[i] = udi_control[p]
         /\ \A i, j \in DOMAIN udi_control' : i # j => \E p, q \in DOMAIN udi_control :
              p # q /\ udi_control'[i] = udi_control[p] /\ udi_control'[j] = udi_control[q]
         /\ \A i \in DOMAIN udi_control' : udi_control'[i].sdi # sdi
         /\ (ctl' = there /\ mask' = mask) \/ RaiseSegv
<1>1. udi_control \in Seq(Node)
  BY DEF IInv, Types, Node
<1>2. Len(udi_control) \in Nat /\ DOMAIN udi_control = 1 .. Len(udi_control)
  BY <1>1, LenProperties
<1>3. CASE NodeAt(sdi) = {}
  <2>1. udi_control' = udi_control /\ ctl' = there /\ mask' = mask
    BY <1>3 DEF Unlist, Goto
  <2>2. \A i \in DOMAIN udi_control : udi_control[i].sdi # sdi
    BY <1>3 DEF NodeAt
  <2> QED
    BY <1>1, <2>1, <2>2
<1>4. CASE NodeAt(sdi) # {}
  <2>1. PICK k \in First(NodeAt(sdi)) :
          /\ udi_control' = RemoveAt(udi_control, k)
          /\ (ctl' = there /\ mask' = mask) \/ RaiseSegv
    BY <1>4 DEF Unlist, Goto
  <2>2. k \in 1 .. Len(udi_control) /\ udi_control[k].sdi = sdi
    BY <1>2, <2>1 DEF First, NodeAt
  <2>3. /\ udi_control' \in Seq(Node) /\ Len(udi_control') = Len(udi_control) - 1
        /\ \A i \in 1 .. Len(udi_control) - 1 :
             udi_control'[i] = IF i < k THEN udi_control[i] ELSE udi_control[i + 1]
    BY <1>1, <2>1, <2>2, RemoveAtProperties
  <2>4. DOMAIN udi_control' = 1 .. Len(udi_control) - 1
    BY <2>3, LenProperties
  <2> DEFINE at(i) == IF i < k THEN i ELSE i + 1
  <2>5. \A i \in DOMAIN udi_control' :
          at(i) \in DOMAIN udi_control /\ at(i) # k /\ udi_control'[i] = udi_control[at(i)]
    BY <1>2, <2>2, <2>3, <2>4
  <2>6. \A i, j \in DOMAIN udi_control' : i # j => at(i) # at(j)
    BY <1>2, <2>2, <2>4
  <2> HIDE DEF at
  <2>7. \A i, j \in DOMAIN udi_control' : i # j => \E p, q \in DOMAIN udi_control :
          p # q /\ udi_control'[i] = udi_control[p] /\ udi_control'[j] = udi_control[q]
    BY <2>5, <2>6
  <2>8. \A j \in DOMAIN udi_control : j # k => udi_control[j].sdi # sdi
    BY <1>2, <2>2, SlotFacts DEF IInv, Types, ListedOnce, HalfFilled
  <2>9. \A i \in DOMAIN udi_control' : udi_control'[i].sdi # sdi
    BY <2>5, <2>8
  <2>10. \A i \in DOMAIN udi_control' : \E p \in DOMAIN udi_control :
           udi_control'[i] = udi_control[p]
    BY <2>5
  <2> QED
    BY <2>1, <2>3, <2>7, <2>9, <2>10
<1> QED
  BY <1>3, <1>4

(* The top of the chain goes, with the frames that it held. *)
LEMMA CutFacts ==
  ASSUME IInv, Len(calls) > 1,
         calls' = Front(calls), sdi_buffer' = FramesUpTo(Len(calls) - 1),
         UNCHANGED <<sdi_parent_domain, ready>>
  PROVE  /\ calls' \in Seq(Slot) /\ sdi_buffer' \in [Slot -> Nat]
         /\ Len(calls') = Len(calls) - 1 /\ DOMAIN calls' = 1 .. Len(calls) - 1
         /\ \A i \in 1 .. Len(calls) - 1 : calls'[i] = calls[i]
         /\ \A i \in DOMAIN calls' : i > 1 =>
              /\ sdi_parent_domain'[calls'[i]] = calls'[i - 1]
              /\ sdi_buffer'[calls'[i]] = i - 1
         /\ calls'[Len(calls')] = sdi_parent_domain[calls[Len(calls)]]
         /\ \A s \in Slot : FrameOf(s)'
<1>1. /\ Len(calls) \in Nat /\ DOMAIN calls = 1 .. Len(calls)
      /\ \A i \in DOMAIN calls : calls[i] \in Slot
  BY ChainFacts DEF IInv
<1>2. calls \in Seq(Slot) /\ sdi_buffer \in [Slot -> Nat]
  BY DEF IInv, Types
<1>3. /\ calls' \in Seq(Slot) /\ Len(calls') = Len(calls) - 1
      /\ \A i \in 1 .. Len(calls) - 1 : calls'[i] = calls[i]
  <2>1. Len(calls) > 0
    BY <1>1
  <2>2. /\ Front(calls) \in Seq(Slot) /\ Len(Front(calls)) = Len(calls) - 1
        /\ \A i \in 1 .. Len(calls) - 1 : Front(calls)[i] = calls[i]
    BY <1>2, <2>1, FrontProperties
  <2> QED
    BY <2>2
<1>4. DOMAIN calls' = 1 .. Len(calls) - 1
  BY <1>3, LenProperties
<1>5. /\ sdi_buffer' \in [Slot -> Nat]
      /\ \A s \in Slot :
           sdi_buffer'[s] = IF sdi_buffer[s] > Len(calls) - 1 THEN 0 ELSE sdi_buffer[s]
  BY <1>2 DEF FramesUpTo
<1>6. ASSUME NEW i \in DOMAIN calls', i > 1
      PROVE  /\ sdi_parent_domain'[calls'[i]] = calls'[i - 1]
             /\ sdi_buffer'[calls'[i]] = i - 1
  <2>1. i \in DOMAIN calls /\ calls'[i] = calls[i] /\ calls'[i - 1] = calls[i - 1]
    BY <1>1, <1>3, <1>4, <1>6
  <2>2. sdi_parent_domain[calls[i]] = calls[i - 1] /\ sdi_buffer[calls[i]] = i - 1
    BY <1>6, <2>1 DEF IInv, Chain
  <2>3. calls[i] \in Slot /\ i <= Len(calls) - 1
    BY <1>1, <1>4, <2>1
  <2> QED
    BY <1>1, <1>5, <1>6, <2>1, <2>2, <2>3
<1>7. calls'[Len(calls')] = sdi_parent_domain[calls[Len(calls)]]
  BY <1>1, <1>3 DEF IInv, Chain
<1>8. ASSUME NEW s \in Slot PROVE FrameOf(s)'
  <2>1. /\ sdi_buffer[s] \in Nat
        /\ s \in ready /\ sdi_buffer[s] # 0 => calls[sdi_buffer[s]] = sdi_parent_domain[s]
    BY <1>2 DEF IInv, Frames, FrameOf
  <2> QED
    BY <1>1, <1>3, <1>5, <2>1 DEF FrameOf
<1> QED
  BY <1>3, <1>4, <1>5, <1>6, <1>7, <1>8

(* A rewind has somewhere to go back to: a fault of the root aborts. *)
LEMMA RewindingFacts ==
  ASSUME IInv, Rewinding
  PROVE  /\ Len(calls) > 1 /\ calls[Len(calls)] = sdi
         /\ active_domain = sdi_parent_domain[sdi]
<1>1. calls[Len(calls)] = sdi /\ active_domain = sdi_parent_domain[sdi]
  BY DEF IInv, Chain
<1>2. Len(calls) # 1
  BY <1>1 DEF IInv, Chain, RootKeyKept
<1> QED
  BY <1>1, <1>2, ChainFacts DEF IInv, Chain

(* Linking an entry into the cache, and filling it in, changes no other. *)
LEMMA EntryFacts ==
  ASSUME IInv, LinkEntry \/ (FillEntry(sdi) /\ cache # <<>>)
  PROVE  /\ cache' \in Seq(Entry) /\ cache' # <<>>
         /\ \A k \in DOMAIN cache' : cache'[k].key # 2
<1>1. /\ cache \in Seq(Entry) /\ \A k \in DOMAIN cache : cache[k].key # 2
      /\ pdi[sdi] \in Nat /\ pdi[sdi] # 2 /\ sdi_address_stack[sdi] \in Nat
  BY DEF IInv, Types, RootKeyKept, Entry
<1>2. PICK e \in Entry, rest \in Seq(Entry) :
        /\ cache' = <<e>> \o rest /\ e.key # 2
        /\ \A k \in DOMAIN rest : rest[k].key # 2
  <2>1. CASE LinkEntry
    <3> DEFINE e == [key |-> 0, stack |-> NULL]
    <3>1. e \in Entry /\ e.key # 2
      BY DEF Entry, NULL
    <3> HIDE DEF e
    <3>2. cache' = <<e>> \o cache
      BY <2>1 DEF LinkEntry, e
    <3> QED
      BY <1>1, <3>1, <3>2
  <2>2. CASE FillEntry(sdi) /\ cache # <<>>
    <3> DEFINE e == [key |-> pdi[sdi], stack |-> sdi_address_stack[sdi]]
               rest == Tail(cache)
    <3>1. e \in Entry /\ e.key # 2
      BY <1>1 DEF Entry
    <3>2. /\ rest \in Seq(Entry) /\ Len(rest) = Len(cache) - 1
          /\ \A k \in 1 .. Len(cache) - 1 : rest[k] = cache[k + 1]
      BY <1>1, <2>2, HeadProperties
    <3> HIDE DEF e, rest
    <3>3. cache' = <<e>> \o rest
      BY <2>2 DEF FillEntry, e, rest
    <3>4. /\ Len(cache) \in Nat /\ DOMAIN cache = 1 .. Len(cache)
          /\ DOMAIN rest = 1 .. Len(cache) - 1
      BY <1>1, <3>2, LenProperties
    <3>5. \A k \in DOMAIN rest : k + 1 \in DOMAIN cache /\ rest[k] = cache[k + 1]
      BY <3>2, <3>4
    <3>6. \A k \in DOMAIN rest : rest[k].key # 2
      BY <1>1, <3>5
    <3> QED
      BY <3>1, <3>2, <3>3, <3>6
  <2> QED
    BY <2>1, <2>2
<1>3. /\ cache' \in Seq(Entry) /\ Len(cache') = Len(rest) + 1
      /\ \A k \in 1 .. Len(rest) + 1 : cache'[k] = IF k = 1 THEN e ELSE rest[k - 1]
  BY <1>2, PushProperties
<1>4. /\ Len(rest) \in Nat /\ DOMAIN rest = 1 .. Len(rest)
      /\ DOMAIN cache' = 1 .. Len(rest) + 1
  BY <1>3, LenProperties
<1>5. ASSUME NEW k \in DOMAIN cache' PROVE cache'[k].key # 2
  <2>1. CASE k = 1
    BY <1>2, <1>3, <1>4, <2>1
  <2>2. CASE k # 1
    <3>1. k - 1 \in DOMAIN rest /\ cache'[k] = rest[k - 1]
      BY <1>3, <1>4, <2>2
    <3> QED
      BY <1>2, <3>1
  <2> QED
    BY <2>1, <2>2
<1>6. cache' # <<>>
  BY <1>3, <1>4, EmptySeq
<1> QED
  BY <1>3, <1>5, <1>6

-----------------------------------------------------------------------------
(* The steps *)

(* It takes a listed domain that is off the chain, or a key that is not the  *)
(* root's.                                                                   *)
LEMMA sdrad_initPreserves ==
  ASSUME IInv, NEW u \in Udi, sdrad_init(u)
  PROVE  IInv'
<1>1. /\ sdi' \in Slot /\ sdi' # ROOT_DOMAIN
      /\ pkey' \in Nat /\ pkey' # 2 /\ next' \in Nat /\ next' > 2
      /\ ctl = "app" /\ ctl' \in {"context", "slot"}
      /\ ctl' = "context" => sdi' \in status /\ \A i \in DOMAIN calls : calls[i] # sdi'
  <2>1. CASE ctl' = "context"
    <3>1. PICK s \in FoundSlot(u) :
            /\ \A i \in DOMAIN calls : calls[i] # s
            /\ sdi' = s /\ pkey' = pkey /\ next' = next
      BY <2>1 DEF sdrad_init, Goto
    <3>2. s \in Slot /\ s \in status /\ s # ROOT_DOMAIN
      BY SearchFacts
    <3> QED
      BY <2>1, <3>1, <3>2 DEF sdrad_init, App, IInv, Types, RootKeyKept
  <2>2. CASE ctl' # "context"
    <3>1. /\ pkey' = IF cache = <<>> THEN next ELSE Head(cache).key
          /\ next' = IF cache = <<>> THEN next + 1 ELSE next
          /\ ctl' = "slot" /\ ctl = "app" /\ sdi' = sdi
      BY <2>2 DEF sdrad_init, App, Goto
    <3>2. pkey' \in Nat /\ pkey' # 2
      <4>1. cache # <<>> => Head(cache).key \in Nat /\ Head(cache).key # 2
        BY HeadOfCache DEF IInv, RootKeyKept, Entry
      <4> QED
        BY <3>1, <4>1 DEF IInv, Types, RootKeyKept
    <3>3. next' \in Nat /\ next' > 2
      BY <3>1 DEF IInv, Types, RootKeyKept
    <3>4. sdi' \in Slot /\ sdi' # ROOT_DOMAIN
      BY <3>1 DEF IInv, Types, RootKeyKept
    <3> QED
      BY <3>1, <3>2, <3>3, <3>4
  <2> QED
    BY <2>1, <2>2
<1>2. UNCHANGED <<status, udi_control, cache, slotVars, runVars, mask>> /\ udi' \in Nat
  BY SlotFacts DEF sdrad_init
<1>3. Types'
  BY <1>1, <1>2 DEF IInv, Types, slotVars, runVars, Control, InitPc
<1>4. RootKeyKept'
  BY <1>1, <1>2 DEF IInv, RootKeyKept, slotVars, runVars
<1>5. BeingFilled'
  BY DEF IInv, BeingFilled, sdrad_init, App, FoundSlot, Goto, FreeSlot, HasKey,
         slotVars, runVars, First
<1>6. MonitorSlot'
  BY DEF IInv, MonitorSlot, sdrad_init, MONITOR_DATA, ROOT_DOMAIN, NULL, HalfFilled, NodePc,
         Rewinding, App, FoundSlot, Goto, FreeSlot, HasKey, slotVars, runVars,
         RewindPc, First
<1>7. ListedOnce'
  BY <1>1, <1>2 DEF IInv, ListedOnce, slotVars, runVars, HalfFilled, NodePc, InitPc
<1>8. Chain'
  BY DEF IInv, Chain, sdrad_init, ROOT_DOMAIN, Rewinding, InitPc, App, FoundSlot,
         Goto, FreeSlot, HasKey, slotVars, runVars, RewindPc, First
<1>9. Frames'
  BY DEF IInv, Frames, sdrad_init, FrameOf, NodePc, App, FoundSlot, Goto,
         FreeSlot, HasKey, slotVars, runVars, First
<1>10. HeapInv'
  BY DEF IInv, HeapInv, sdrad_init, Running, App, FoundSlot, Goto, FreeSlot,
         HasKey, slotVars, runVars, InitPc, DestroyPc, First
<1>11. SegvDeliverable'
  BY DEF IInv, SegvDeliverable, sdrad_init, App, FoundSlot, Goto, FreeSlot,
         HasKey, slotVars, runVars, First
<1> QED
  BY <1>3, <1>4, <1>5, <1>6, <1>7, <1>8, <1>9, <1>10, <1>11 DEF IInv

(* It clears a flag that the invariant does not depend on. *)
LEMMA sdrad_deinitPreserves ==
  ASSUME IInv, NEW u \in Udi, sdrad_deinit(u)
  PROVE  IInv'
<1>1. Types'
  BY DEF IInv, Types, sdrad_deinit, Control, App, FoundSlot, listVars, runVars,
         locals, InitPc, EnterPc, ExitPc, DestroyPc, HandlerPc, RewindPc, Over, First
<1>2. RootKeyKept'
  BY DEF IInv, RootKeyKept, sdrad_deinit, ROOT_DOMAIN, App, FoundSlot, listVars,
         runVars, locals, First
<1>3. BeingFilled'
  BY DEF IInv, BeingFilled, sdrad_deinit, App, FoundSlot, listVars, runVars,
         locals, First
<1>4. MonitorSlot'
  BY DEF IInv, MonitorSlot, sdrad_deinit, MONITOR_DATA, ROOT_DOMAIN, NULL, HalfFilled, NodePc,
         Rewinding, App, FoundSlot, listVars, runVars, locals, RewindPc, First
<1>5. ListedOnce'
  BY DEF IInv, ListedOnce, sdrad_deinit, HalfFilled, NodePc, InitPc, App,
         FoundSlot, listVars, runVars, locals, MONITOR_DATA, First
<1>6. Chain'
  BY DEF IInv, Chain, sdrad_deinit, ROOT_DOMAIN, Rewinding, InitPc, App,
         FoundSlot, listVars, runVars, locals, RewindPc, First
<1>7. Frames'
  BY DEF IInv, Frames, sdrad_deinit, FrameOf, NodePc, App, FoundSlot, listVars,
         runVars, locals, First
<1>8. HeapInv'
  BY DEF IInv, HeapInv, sdrad_deinit, Running, App, FoundSlot, listVars, runVars,
         locals, InitPc, DestroyPc, First
<1>9. SegvDeliverable'
  BY DEF IInv, SegvDeliverable, sdrad_deinit, App, FoundSlot, listVars, runVars,
         locals, First
<1> QED
  BY <1>1, <1>2, <1>3, <1>4, <1>5, <1>6, <1>7, <1>8, <1>9 DEF IInv

(* The frame of the domain to be entered is in the one on top of the chain. *)
LEMMA sdrad_enterPreserves ==
  ASSUME IInv, NEW u \in Udi, sdrad_enter(u)
  PROVE  IInv'
<1>1. PICK s \in FoundSlot(u) :
        /\ s \in ready /\ sdi_parent_domain[s] = active_domain /\ sdi_buffer[s] # 0
        /\ tlsf_structure' = s /\ sdi' = s
  BY DEF sdrad_enter
<1>2. /\ s \in Slot /\ s \in status /\ s # ROOT_DOMAIN
      /\ \E k \in DOMAIN udi_control : udi_control[k].sdi = s
  BY SearchFacts
<1>3. /\ UNCHANGED <<listVars, slotVars, active_domain, calls, udi, pkey, mask>>
      /\ ctl = "app" /\ ctl' = "e_active"
  BY DEF sdrad_enter, App, Goto
<1>4. Types'
  BY <1>1, <1>2, <1>3 DEF IInv, Types, listVars, slotVars, Control, EnterPc
<1>5. RootKeyKept'
  BY <1>1, <1>2, <1>3 DEF IInv, RootKeyKept, listVars, slotVars
<1>6. BeingFilled'
  BY DEF IInv, BeingFilled, sdrad_enter, App, FoundSlot, Goto, listVars,
         slotVars, First
<1>7. MonitorSlot'
  BY <1>1, <1>2, <1>3
  DEF IInv, MonitorSlot, HalfFilled, Rewinding, RewindPc, NodePc, listVars, slotVars
<1>8. ListedOnce'
  BY <1>1, <1>2, <1>3 DEF IInv, ListedOnce, HalfFilled, NodePc, InitPc, listVars, slotVars
<1>9. Chain'
  BY DEF IInv, Chain, sdrad_enter, ROOT_DOMAIN, Rewinding, InitPc, App,
         FoundSlot, Goto, listVars, slotVars, RewindPc, First
<1>10. Frames'
  <2>1. calls[Len(calls)] = active_domain
    BY <1>3 DEF IInv, Chain, Rewinding, RewindPc
  <2>2. /\ sdi_buffer[s] \in 1 .. Len(calls)
        /\ calls[sdi_buffer[s]] = sdi_parent_domain[s]
    <3>1. FrameOf(s) /\ sdi_buffer[s] \in Nat
      BY <1>2 DEF IInv, Types, Frames
    <3>2. Len(calls) \in Nat
      BY ChainFacts DEF IInv
    <3> QED
      BY <1>1, <3>1, <3>2 DEF FrameOf
  <2>3. sdi_buffer[s] = Len(calls)
    BY <1>1, <2>1, <2>2, ChainFacts DEF IInv, Chain
  <2>4. ASSUME NEW i \in DOMAIN calls PROVE calls[i] # s
    <3>1. CASE i = 1
      BY <1>2, <3>1 DEF IInv, Chain
    <3>2. CASE i > 1
      BY <2>2, <2>3, <3>2, ChainFacts DEF IInv, Chain
    <3> QED
      BY <3>1, <3>2, ChainFacts DEF IInv
  <2> QED
    BY <1>1, <1>3, <2>1, <2>3, <2>4 DEF IInv, Frames, FrameOf, NodePc, listVars, slotVars
<1>11. HeapInv'
  BY DEF IInv, HeapInv, sdrad_enter, Running, App, FoundSlot, Goto, listVars,
         slotVars, InitPc, DestroyPc, First
<1>12. SegvDeliverable'
  BY DEF IInv, SegvDeliverable, sdrad_enter, App, FoundSlot, Goto, listVars,
         slotVars, First
<1> QED
  BY <1>4, <1>5, <1>6, <1>7, <1>8, <1>9, <1>10, <1>11, <1>12 DEF IInv

(* It only selects a slot, which is not the root's. *)
LEMMA sdrad_destroyPreserves ==
  ASSUME IInv, NEW u \in Udi, sdrad_destroy(u)
  PROVE  IInv'
<1>1. PICK s \in FoundSlot(u) : sdi' = s
  BY DEF sdrad_destroy
<1>2. s \in Slot /\ s \in status /\ s # ROOT_DOMAIN
  BY SearchFacts
<1>3. /\ UNCHANGED <<listVars, slotVars, runVars, udi, pkey, mask>>
      /\ ctl = "app" /\ ctl' = "d_cache"
  BY DEF sdrad_destroy, App, Goto
<1>4. Types'
  BY <1>1, <1>2, <1>3 DEF IInv, Types, listVars, slotVars, runVars, Control, DestroyPc
<1>5. RootKeyKept'
  BY <1>1, <1>2, <1>3 DEF IInv, RootKeyKept, listVars, slotVars, runVars
<1>6. BeingFilled'
  BY DEF IInv, BeingFilled, sdrad_destroy, App, FoundSlot, Goto, listVars,
         slotVars, runVars, First
<1>7. MonitorSlot'
  BY DEF IInv, MonitorSlot, sdrad_destroy, MONITOR_DATA, ROOT_DOMAIN, NULL, HalfFilled, NodePc,
         Rewinding, App, FoundSlot, Goto, listVars, slotVars, runVars, RewindPc,
         First
<1>8. ListedOnce'
  BY DEF IInv, ListedOnce, sdrad_destroy, HalfFilled, NodePc, InitPc, App,
         FoundSlot, Goto, listVars, slotVars, runVars, MONITOR_DATA, First
<1>9. Chain'
  BY DEF IInv, Chain, sdrad_destroy, ROOT_DOMAIN, Rewinding, InitPc, App,
         FoundSlot, Goto, listVars, slotVars, runVars, RewindPc, First
<1>10. Frames'
  BY DEF IInv, Frames, sdrad_destroy, FrameOf, NodePc, App, FoundSlot, Goto,
         listVars, slotVars, runVars, First
<1>11. HeapInv'
  BY DEF IInv, HeapInv, sdrad_destroy, Running, App, FoundSlot, Goto, listVars,
         slotVars, runVars, InitPc, DestroyPc, First
<1>12. SegvDeliverable'
  BY DEF IInv, SegvDeliverable, sdrad_destroy, App, FoundSlot, Goto, listVars,
         slotVars, runVars, First
<1> QED
  BY <1>4, <1>5, <1>6, <1>7, <1>8, <1>9, <1>10, <1>11, <1>12 DEF IInv

(* The chain loses its top, whose parent is the one below. *)
LEMMA sdrad_exitPreserves ==
  ASSUME IInv, sdrad_exit
  PROVE  IInv'
<1>1. /\ ctl = "app" /\ ctl' = "x_heap" /\ Len(calls) > 1
      /\ active_domain' = sdi_parent_domain[active_domain]
      /\ calls' = Front(calls) /\ sdi_buffer' = FramesUpTo(Len(calls) - 1)
      /\ UNCHANGED <<listVars, pdi, sdi_address_stack, sdi_parent_domain, sdi_saved_ex, ready,
                     tlsf_structure, locals, mask>>
  BY DEF sdrad_exit, App, Goto
<1>2. /\ calls' \in Seq(Slot) /\ sdi_buffer' \in [Slot -> Nat]
      /\ Len(calls') = Len(calls) - 1 /\ DOMAIN calls' = 1 .. Len(calls) - 1
      /\ \A i \in 1 .. Len(calls) - 1 : calls'[i] = calls[i]
      /\ \A i \in DOMAIN calls' : i > 1 =>
           /\ sdi_parent_domain'[calls'[i]] = calls'[i - 1]
           /\ sdi_buffer'[calls'[i]] = i - 1
      /\ calls'[Len(calls')] = sdi_parent_domain[calls[Len(calls)]]
      /\ \A s \in Slot : FrameOf(s)'
  BY <1>1, CutFacts
<1>3. /\ Len(calls) \in Nat /\ DOMAIN calls = 1 .. Len(calls)
      /\ calls[Len(calls)] = active_domain
  BY <1>1, ChainFacts DEF IInv, Chain, Rewinding, RewindPc
<1>4. Types'
  BY <1>1, <1>2 DEF IInv, Types, listVars, locals, Control, ExitPc
<1>5. RootKeyKept'
  BY DEF IInv, RootKeyKept, sdrad_exit, ROOT_DOMAIN, App, FramesUpTo, Goto, listVars, locals
<1>6. BeingFilled'
  BY DEF IInv, BeingFilled, sdrad_exit, App, FramesUpTo, Goto, listVars, locals
<1>7. MonitorSlot'
  BY <1>1, <1>2, <1>3
  DEF IInv, MonitorSlot, HalfFilled, Rewinding, RewindPc, NodePc, listVars, locals
<1>8. ListedOnce'
  BY DEF IInv, ListedOnce, sdrad_exit, HalfFilled, NodePc, InitPc, App, FramesUpTo, Goto,
         listVars, locals, MONITOR_DATA
<1>9. Chain'
  <2>1. calls'[Len(calls')] = active_domain'
    BY <1>1, <1>2, <1>3
  <2>2. \A i \in DOMAIN calls' : i \in DOMAIN calls /\ calls'[i] = calls[i]
    BY <1>2, <1>3
  <2> QED
    BY <1>1, <1>2, <1>3, <2>1, <2>2 DEF IInv, Chain, Rewinding, RewindPc, InitPc, listVars
<1>10. Frames'
  BY <1>1, <1>2 DEF Frames, NodePc
<1>11. HeapInv'
  BY DEF IInv, HeapInv, sdrad_exit, Running, App, FramesUpTo, Goto, listVars, locals, InitPc,
         DestroyPc
<1>12. SegvDeliverable'
  BY DEF IInv, SegvDeliverable, sdrad_exit, App, FramesUpTo, Goto, listVars, locals
<1> QED
  BY <1>4, <1>5, <1>6, <1>7, <1>8, <1>9, <1>10, <1>11, <1>12 DEF IInv

(* A free slot is neither listed nor on the chain, nor one of the            *)
(* constructor's.                                                            *)
LEMMA InitSlotPreserves ==
  ASSUME IInv, InitSlot
  PROVE  IInv'
<1>1. /\ ctl = "slot" /\ ctl' = "node"
      /\ sdi' \in Slot \ status /\ status' = status \cup {sdi'}
      /\ ready' = ready \ {sdi'}
      /\ UNCHANGED <<udi_control, cache, next, pdi, sdi_address_stack, sdi_parent_domain,
                     sdi_saved_ex, sdi_buffer, runVars, udi, pkey, mask>>
  BY DEF InitSlot, At, Goto, First, FreeSlot
<1>2. Types'
  BY DEF IInv, Types, InitSlot, Control, At, First, FreeSlot, Goto, runVars, InitPc, EnterPc,
         ExitPc, DestroyPc, HandlerPc, RewindPc, Over
<1>3. RootKeyKept'
  BY DEF IInv, RootKeyKept, MonitorSlot, InitSlot, ROOT_DOMAIN, MONITOR_DATA, NULL, HalfFilled,
         NodePc, Rewinding, At, First, FreeSlot, Goto, runVars, RewindPc
<1>4. BeingFilled'
  BY DEF IInv, BeingFilled, InitSlot, At, First, FreeSlot, Goto, runVars
<1>5. MonitorSlot'
  BY DEF IInv, MonitorSlot, InitSlot, MONITOR_DATA, ROOT_DOMAIN, NULL, HalfFilled, NodePc,
         Rewinding, At, First, FreeSlot, Goto, runVars, RewindPc
<1>6. ListedOnce'
  BY <1>1, SlotFacts DEF IInv, ListedOnce, HalfFilled, NodePc, InitPc
<1>7. Chain'
  <2>1. \A i \in DOMAIN calls : calls[i] \in status
    BY <1>1 DEF IInv, Chain
  <2> QED
    BY <1>1, <2>1 DEF IInv, Chain, Rewinding, RewindPc, runVars
<1>8. Frames'
  BY DEF IInv, Frames, InitSlot, FrameOf, NodePc, At, First, FreeSlot, Goto, runVars
<1>9. HeapInv'
  BY DEF IInv, HeapInv, InitSlot, Running, At, First, FreeSlot, Goto, runVars, InitPc, DestroyPc
<1>10. SegvDeliverable'
  BY DEF IInv, SegvDeliverable, InitSlot, At, First, FreeSlot, Goto, runVars
<1> QED
  BY <1>2, <1>3, <1>4, <1>5, <1>6, <1>7, <1>8, <1>9, <1>10 DEF IInv

(* A node is linked without a slot, and gets one that no other node has.     *)
LEMMA InitNodePreserves ==
  ASSUME IInv, InitNode
  PROVE  IInv'
<1>1. /\ udi_control \in Seq(Node)
      /\ Len(udi_control) \in Nat /\ DOMAIN udi_control = 1 .. Len(udi_control)
      /\ udi \in Nat /\ sdi \in Slot
  BY ListFacts, SlotFacts DEF IInv, Types, Node
<1>2. /\ UNCHANGED <<status, cache, next, slotVars, runVars, locals, mask>>
      /\ \/ ctl = "node" /\ ctl' = "udi"
         \/ ctl = "udi" /\ ctl' = "sdi"
         \/ ctl = "sdi" /\ ctl' = "key"
  <2>1. UNCHANGED <<status, cache, next, slotVars, runVars, locals, mask>>
    BY DEF InitNode
  <2>2. \/ ctl = "node" /\ ctl' = "udi"
        \/ ctl = "udi" /\ ctl' = "sdi"
        \/ ctl = "sdi" /\ ctl' = "key"
    <3>1. ctl \in {"node", "udi", "sdi"}
      BY DEF InitNode, At
    <3>2. ctl = "node" => ctl' = "udi"
      BY DEF InitNode, At, Goto
    <3>3. ctl = "udi" => ctl' = "sdi"
      BY DEF InitNode, At, Goto
    <3>4. ctl = "sdi" => ctl' = "key"
      BY DEF InitNode, At, Goto
    <3> QED
      BY <3>1, <3>2, <3>3, <3>4
  <2> QED
    BY <2>1, <2>2
<1>3. ASSUME ctl = "node"
      PROVE  /\ udi_control' \in Seq(Node) /\ Len(udi_control') = Len(udi_control) + 1
             /\ udi_control'[1].sdi = NO_SLOT
             /\ \A k \in 2 .. Len(udi_control) + 1 : udi_control'[k] = udi_control[k - 1]
  <2>1. udi_control' = <<[udi |-> 0, sdi |-> NO_SLOT]>> \o udi_control
    BY <1>3 DEF InitNode, At
  <2>2. [udi |-> 0, sdi |-> NO_SLOT] \in Node
    BY <1>1 DEF Node
  <2> QED
    BY <1>1, <2>1, <2>2, PushProperties
<1>4. ASSUME ctl # "node"
      PROVE  /\ udi_control' \in Seq(Node) /\ Len(udi_control') = Len(udi_control)
             /\ Len(udi_control) > 0
             /\ udi_control'[1].sdi = IF ctl = "sdi" THEN sdi ELSE udi_control[1].sdi
             /\ \A k \in 2 .. Len(udi_control) : udi_control'[k] = udi_control[k]
  <2>1. PICK e \in Node :
          /\ udi_control' = [udi_control EXCEPT ![1] = e]
          /\ e.sdi = IF ctl = "sdi" THEN sdi ELSE udi_control[1].sdi
    <3>1. udi_control[1] \in Node /\ 1 \in 1 .. Len(udi_control)
      BY <1>1, <1>2, <1>4, ListFacts, EmptySeq DEF IInv, BeingFilled
    <3>2. CASE ctl = "udi"
      <4>1. [udi_control[1] EXCEPT !.udi = udi] \in Node
        BY <1>1, <3>1 DEF Node
      <4> QED
        BY <3>1, <3>2, <4>1 DEF InitNode, At, Node
    <3>3. CASE ctl = "sdi"
      <4>1. [udi_control[1] EXCEPT !.sdi = sdi] \in Node
        BY <1>1, <3>1 DEF Node
      <4> QED
        BY <3>1, <3>3, <4>1 DEF InitNode, At, Node
    <3> QED
      BY <1>2, <1>4, <3>2, <3>3
  <2>2. 1 \in 1 .. Len(udi_control)
    BY <1>1, <1>2, <1>4, EmptySeq DEF IInv, BeingFilled
  <2>3. /\ udi_control' \in Seq(Node) /\ Len(udi_control') = Len(udi_control)
        /\ \A j \in 1 .. Len(udi_control) : udi_control'[j] = IF j = 1 THEN e ELSE udi_control[j]
    BY <1>1, <2>1, <2>2, ExceptSeq
  <2> QED
    BY <1>1, <2>1, <2>2, <2>3
<1>5. /\ udi_control' \in Seq(Node)
      /\ Len(udi_control') \in Nat \ {0} /\ DOMAIN udi_control' = 1 .. Len(udi_control')
  BY <1>1, <1>2, <1>3, <1>4, LenProperties
(* Every node but the head was there, and so was the head's slot unless it is the new one. *)
<1>6. \A k \in DOMAIN udi_control' :
        \/ \E p \in DOMAIN udi_control : udi_control'[k].sdi = udi_control[p].sdi
        \/ k = 1 /\ ctl = "node" /\ udi_control'[k].sdi = NO_SLOT
        \/ k = 1 /\ ctl = "sdi" /\ udi_control'[k].sdi = sdi
  <2>1. CASE ctl = "node"
    <3>1. ASSUME NEW k \in DOMAIN udi_control', k # 1
          PROVE  \E p \in DOMAIN udi_control : udi_control'[k].sdi = udi_control[p].sdi
      <4>1. k - 1 \in DOMAIN udi_control /\ udi_control'[k] = udi_control[k - 1]
        BY <1>1, <1>3, <1>5, <2>1, <3>1
      <4> QED
        BY <4>1
    <3> QED
      BY <1>3, <2>1, <3>1
  <2>2. CASE ctl # "node"
    <3>1. \A k \in DOMAIN udi_control' :
            /\ k \in DOMAIN udi_control
            /\ udi_control'[k].sdi = IF k = 1 /\ ctl = "sdi" THEN sdi ELSE udi_control[k].sdi
      BY <1>1, <1>4, <1>5, <2>2
    <3> QED
      BY <3>1
  <2> QED
    BY <2>1, <2>2
<1>7. Types'
  BY <1>2, <1>5 DEF IInv, Types, Node, slotVars, runVars, locals, Control, InitPc
<1>8. RootKeyKept'
  <2>1. \A k \in DOMAIN udi_control' : udi_control'[k].sdi # ROOT_DOMAIN
    BY <1>6, SlotFacts DEF IInv, RootKeyKept
  <2> QED
    BY <1>2, <2>1 DEF IInv, RootKeyKept, slotVars, runVars, locals
<1>9. BeingFilled'
  <2>1. udi_control' # <<>>
    BY <1>5, EmptySeq
  <2> QED
    BY <1>2, <2>1 DEF BeingFilled
<1>10. MonitorSlot'
  <2>1. \A k \in DOMAIN udi_control' : udi_control'[k].sdi # MONITOR_DATA
    BY <1>2, <1>6, SlotFacts DEF IInv, MonitorSlot, NodePc
  <2> QED
    BY <1>2, <2>1 DEF IInv, MonitorSlot, NodePc, Rewinding, RewindPc, slotVars, runVars, locals
<1>11. ListedOnce'
  <2>1. ASSUME NEW j \in DOMAIN udi_control', NEW k \in DOMAIN udi_control',
               j # k, udi_control'[j].sdi = udi_control'[k].sdi
        PROVE  HalfFilled(j)'
    <3>1. CASE ctl = "node"
      <4>1. CASE j = 1 \/ k = 1
        BY <1>3, <2>1, <3>1, <4>1 DEF HalfFilled
      <4>2. CASE j # 1 /\ k # 1
        <5>1. /\ j - 1 \in DOMAIN udi_control /\ k - 1 \in DOMAIN udi_control
              /\ udi_control'[j] = udi_control[j - 1] /\ udi_control'[k] = udi_control[k - 1]
          BY <1>1, <1>3, <1>5, <3>1, <4>2
        <5>2. j - 1 # k - 1
          BY <1>5, <2>1
        <5> QED
          BY <2>1, <5>1, <5>2 DEF IInv, ListedOnce, HalfFilled
      <4> QED
        BY <4>1, <4>2
    <3>2. CASE ctl # "node"
      <4>1. /\ j \in DOMAIN udi_control /\ k \in DOMAIN udi_control
            /\ udi_control'[j].sdi = IF j = 1 /\ ctl = "sdi" THEN sdi ELSE udi_control[j].sdi
            /\ udi_control'[k].sdi = IF k = 1 /\ ctl = "sdi" THEN sdi ELSE udi_control[k].sdi
        BY <1>1, <1>4, <1>5, <3>2
      <4> QED
        BY <1>2, <2>1, <4>1 DEF IInv, ListedOnce, HalfFilled, NodePc
    <3> QED
      BY <3>1, <3>2
  <2>2. \A k \in DOMAIN udi_control' : udi_control'[k].sdi \in status \/ HalfFilled(k)'
    BY <1>2, <1>6 DEF IInv, ListedOnce, HalfFilled, InitPc
  <2>3. ctl' # "key" => \A k \in DOMAIN udi_control' : udi_control'[k].sdi # sdi
    BY <1>1, <1>2, <1>6, SlotFacts DEF IInv, ListedOnce, NodePc
  <2> QED
    BY <1>2, <2>1, <2>2, <2>3 DEF IInv, ListedOnce, NodePc, InitPc, locals
<1>12. Chain'
  BY DEF IInv, Chain, InitNode, ROOT_DOMAIN, Rewinding, InitPc, At, Goto, slotVars, runVars,
         locals, RewindPc
<1>13. Frames'
  BY <1>2 DEF IInv, Frames, FrameOf, NodePc, slotVars, runVars, locals
<1>14. HeapInv'
  BY <1>2 DEF IInv, HeapInv, Running, InitPc, runVars
<1>15. SegvDeliverable'
  BY DEF IInv, SegvDeliverable, InitNode, At, Goto, slotVars, runVars, locals
<1> QED
  BY <1>7, <1>8, <1>9, <1>10, <1>11, <1>12, <1>13, <1>14, <1>15 DEF IInv

(* The slot that gets the key and the parent is not on the chain. *)
LEMMA InitKeyPreserves ==
  ASSUME IInv, InitKey
  PROVE  IInv'
<1>1. /\ ctl = "key" /\ ctl' = "stack"
      /\ pdi' = [pdi EXCEPT ![sdi] = pkey]
      /\ sdi_parent_domain' = [sdi_parent_domain EXCEPT ![sdi] = active_domain]
      /\ UNCHANGED <<listVars, sdi_address_stack, sdi_saved_ex, sdi_buffer, ready, runVars,
                     locals, mask>>
  BY DEF InitKey, At, Goto
<1>2. Types'
  BY <1>1 DEF IInv, Types, listVars, runVars, locals, Control, InitPc
<1>3. RootKeyKept'
  BY <1>1 DEF IInv, Types, RootKeyKept, listVars, runVars, locals
<1>4. BeingFilled'
  BY DEF IInv, BeingFilled, InitKey, At, Goto, listVars, runVars, locals
<1>5. MonitorSlot'
  BY DEF IInv, MonitorSlot, InitKey, MONITOR_DATA, ROOT_DOMAIN, NULL, HalfFilled, NodePc,
         Rewinding, At, Goto, listVars, runVars, locals, RewindPc
<1>6. ListedOnce'
  BY DEF IInv, ListedOnce, InitKey, HalfFilled, NodePc, InitPc, At, Goto, listVars, runVars,
         locals, MONITOR_DATA
<1>7. Chain'
  BY DEF IInv, Chain, InitKey, ROOT_DOMAIN, Rewinding, InitPc, At, Goto, listVars, runVars,
         locals, RewindPc
<1>8. Frames'
  BY DEF IInv, Frames, InitKey, FrameOf, NodePc, At, Goto, listVars, runVars, locals
<1>9. HeapInv'
  BY DEF IInv, HeapInv, InitKey, Running, At, Goto, listVars, runVars, locals, InitPc, DestroyPc
<1>10. SegvDeliverable'
  BY DEF IInv, SegvDeliverable, InitKey, At, Goto, listVars, runVars, locals
<1> QED
  BY <1>2, <1>3, <1>4, <1>5, <1>6, <1>7, <1>8, <1>9, <1>10 DEF IInv

(* The slot that gets the stack is not the monitor's. *)
LEMMA InitStackPreserves ==
  ASSUME IInv, InitStack
  PROVE  IInv'
<1>1. /\ ctl = "stack" /\ ctl' = "context"
      /\ sdi_address_stack' = [sdi_address_stack EXCEPT ![sdi] =
                                 IF cache = <<>> THEN pkey ELSE Head(cache).stack]
      /\ cache' = IF cache = <<>> THEN cache ELSE Tail(cache)
      /\ UNCHANGED <<status, udi_control, next, pdi, sdi_parent_domain, sdi_saved_ex,
                     sdi_buffer, ready, runVars, locals, mask>>
  BY DEF InitStack, CacheWithoutHead, At, Goto
<1>2. cache \in Seq(Entry)
  BY DEF IInv, Types, Entry
<1>3. /\ cache' \in Seq(Entry) /\ sdi_address_stack'[sdi] \in Nat
      /\ \A k \in DOMAIN cache' : \E p \in DOMAIN cache : cache'[k] = cache[p]
  <2>1. CASE cache = <<>>
    BY <1>1, <1>2, <2>1 DEF IInv, Types
  <2>2. CASE cache # <<>>
    <3>1. /\ Head(cache) \in Entry /\ cache' = Tail(cache)
          /\ cache' \in Seq(Entry) /\ Len(cache') = Len(cache) - 1
          /\ \A k \in 1 .. Len(cache) - 1 : cache'[k] = cache[k + 1]
      BY <1>1, <1>2, <2>2, HeadProperties
    <3>2. /\ DOMAIN cache' = 1 .. Len(cache) - 1
          /\ Len(cache) \in Nat /\ DOMAIN cache = 1 .. Len(cache)
      BY <1>2, <3>1, LenProperties
    <3>3. \A k \in DOMAIN cache' : k + 1 \in DOMAIN cache /\ cache'[k] = cache[k + 1]
      BY <3>1, <3>2
    <3>4. sdi_address_stack'[sdi] \in Nat
      BY <1>1, <2>2, <3>1 DEF IInv, Types, Entry
    <3> QED
      BY <3>1, <3>3, <3>4
  <2> QED
    BY <2>1, <2>2
<1>4. Types'
  <2>1. sdi_address_stack' \in [Slot -> Nat]
    BY <1>1, <1>3 DEF IInv, Types
  <2> QED
    BY <1>1, <1>3, <2>1 DEF IInv, Types, Entry, runVars, locals, Control, InitPc
<1>5. RootKeyKept'
  BY <1>1, <1>3 DEF IInv, RootKeyKept, runVars, locals
<1>6. BeingFilled'
  BY DEF IInv, BeingFilled, InitStack, At, CacheWithoutHead, Goto, runVars, locals
<1>7. MonitorSlot'
  BY DEF IInv, MonitorSlot, InitStack, MONITOR_DATA, ROOT_DOMAIN, NULL, HalfFilled, NodePc,
         Rewinding, At, CacheWithoutHead, Goto, runVars, locals, RewindPc
<1>8. ListedOnce'
  BY DEF IInv, ListedOnce, InitStack, HalfFilled, NodePc, InitPc, At, CacheWithoutHead, Goto,
         runVars, locals, MONITOR_DATA
<1>9. Chain'
  BY DEF IInv, Chain, InitStack, ROOT_DOMAIN, Rewinding, InitPc, At, CacheWithoutHead, Goto,
         runVars, locals, RewindPc
<1>10. Frames'
  BY DEF IInv, Frames, InitStack, FrameOf, NodePc, At, CacheWithoutHead, Goto, runVars, locals
<1>11. HeapInv'
  BY DEF IInv, HeapInv, InitStack, Running, At, CacheWithoutHead, Goto, runVars, locals, InitPc,
         DestroyPc
<1>12. SegvDeliverable'
  BY DEF IInv, SegvDeliverable, InitStack, At, CacheWithoutHead, Goto, runVars, locals
<1> QED
  BY <1>4, <1>5, <1>6, <1>7, <1>8, <1>9, <1>10, <1>11, <1>12 DEF IInv

(* The new frame is in the domain that becomes the parent. *)
LEMMA InitContextPreserves ==
  ASSUME IInv, InitContext
  PROVE  IInv'
<1>1. /\ ctl = "context" /\ ctl' = "app"
      /\ sdi_buffer' = [sdi_buffer EXCEPT ![sdi] = Len(calls)]
      /\ sdi_parent_domain' = [sdi_parent_domain EXCEPT ![sdi] = active_domain]
      /\ ready' = ready \cup {sdi}
      /\ UNCHANGED runVars
  BY DEF InitContext, ReturnFrom, At, Goto
<1>2. Types'
  BY SlotFacts, ChainFacts
  DEF IInv, Types, MonitorSlot, InitContext, Control, MONITOR_DATA, ROOT_DOMAIN, NULL,
      HalfFilled, NodePc, Rewinding, At, ReturnFrom, listVars, runVars, InitPc, EnterPc,
      ExitPc, DestroyPc, HandlerPc, RewindPc, Over, Goto
<1>3. RootKeyKept'
  BY DEF IInv, RootKeyKept, InitContext, ROOT_DOMAIN, At, ReturnFrom, listVars, runVars, Goto
<1>4. BeingFilled'
  BY DEF IInv, BeingFilled, InitContext, At, ReturnFrom, listVars, runVars, Goto
<1>5. MonitorSlot'
  BY DEF IInv, MonitorSlot, InitContext, MONITOR_DATA, ROOT_DOMAIN, NULL, HalfFilled, NodePc,
         Rewinding, At, ReturnFrom, listVars, runVars, RewindPc, Goto
<1>6. ListedOnce'
  BY DEF IInv, ListedOnce, InitContext, HalfFilled, NodePc, InitPc, At, ReturnFrom, listVars,
         runVars, MONITOR_DATA, Goto
<1>7. Chain'
  BY DEF IInv, Chain, InitContext, ROOT_DOMAIN, Rewinding, InitPc, At, ReturnFrom, listVars,
         runVars, RewindPc, Goto
<1>8. Frames'
  <2>1. calls[Len(calls)] = active_domain
    BY <1>1 DEF IInv, Chain, Rewinding, RewindPc
  <2>2. ASSUME NEW s \in Slot PROVE FrameOf(s)'
    <3>1. CASE s = sdi
      BY <1>1, <2>1, <3>1, ChainFacts DEF IInv, Types, FrameOf, runVars
    <3>2. CASE s # sdi
      BY <1>1, <3>2 DEF IInv, Types, Frames, FrameOf, runVars
    <3> QED
      BY <3>1, <3>2
  <2> QED
    BY <1>1, <2>2 DEF Frames, NodePc
<1>9. HeapInv'
  BY DEF IInv, HeapInv, InitContext, Running, At, ReturnFrom, listVars, runVars, InitPc,
         DestroyPc, Goto
<1>10. SegvDeliverable'
  BY DEF IInv, SegvDeliverable, InitContext, At, ReturnFrom, listVars, runVars, Goto
<1> QED
  BY <1>2, <1>3, <1>4, <1>5, <1>6, <1>7, <1>8, <1>9, <1>10 DEF IInv

(* The chain gets a domain that it does not have. *)
LEMMA EnterActivePreserves ==
  ASSUME IInv, EnterActive
  PROVE  IInv'
<1>1. /\ ctl = "e_active" /\ ctl' = "e_switch"
      /\ active_domain' = sdi /\ calls' = Append(calls, sdi)
      /\ UNCHANGED <<listVars, slotVars, tlsf_structure, locals, mask>>
  BY DEF EnterActive, At, Goto
<1>2. calls \in Seq(Slot) /\ sdi \in Slot
  BY DEF IInv, Types
<1>3. /\ calls' \in Seq(Slot) /\ Len(calls') = Len(calls) + 1
      /\ \A i \in 1 .. Len(calls) : calls'[i] = calls[i]
      /\ calls'[Len(calls) + 1] = sdi
  BY <1>1, <1>2, AppendProperties
<1>4. /\ DOMAIN calls' = 1 .. Len(calls) + 1
      /\ Len(calls) \in Nat /\ DOMAIN calls = 1 .. Len(calls)
  BY <1>2, <1>3, LenProperties
<1>5. /\ sdi_buffer[sdi] = Len(calls) /\ sdi_parent_domain[sdi] = calls[Len(calls)]
      /\ \A i \in DOMAIN calls : calls[i] # sdi
  BY <1>1 DEF IInv, Frames
<1>6. Types'
  BY <1>1, <1>2, <1>3 DEF IInv, Types, listVars, slotVars, locals, Control, EnterPc
<1>7. RootKeyKept'
  BY DEF IInv, RootKeyKept, EnterActive, ROOT_DOMAIN, At, Goto, listVars, slotVars, locals
<1>8. BeingFilled'
  BY DEF IInv, BeingFilled, EnterActive, At, Goto, listVars, slotVars, locals
<1>9. MonitorSlot'
  <2>1. \A i \in DOMAIN calls' : calls'[i] # MONITOR_DATA
    BY <1>1, <1>3, <1>4 DEF IInv, MonitorSlot
  <2> QED
    BY <1>1, <2>1 DEF IInv, MonitorSlot, NodePc, Rewinding, RewindPc, listVars
<1>10. ListedOnce'
  BY DEF IInv, ListedOnce, EnterActive, HalfFilled, NodePc, InitPc, At, Goto, listVars,
         slotVars, locals, MONITOR_DATA
<1>11. Chain'
  <2>1. \A i, j \in DOMAIN calls' : calls'[i] = calls'[j] => i = j
    BY <1>3, <1>4, <1>5 DEF IInv, Chain
  <2>2. ASSUME NEW i \in DOMAIN calls', i > 1
        PROVE  sdi_parent_domain'[calls'[i]] = calls'[i - 1] /\ sdi_buffer'[calls'[i]] = i - 1
    <3>1. CASE i = Len(calls) + 1
      <4>1. /\ i - 1 = Len(calls) /\ i - 1 \in 1 .. Len(calls)
            /\ calls'[i] = sdi /\ calls'[i - 1] = calls[i - 1]
        BY <1>3, <1>4, <2>2, <3>1
      <4> QED
        BY <1>1, <1>5, <4>1 DEF slotVars
    <3>2. CASE i # Len(calls) + 1
      BY <1>1, <1>3, <1>4, <2>2, <3>2 DEF IInv, Chain, slotVars
    <3> QED
      BY <3>1, <3>2
  <2>3. \A i \in DOMAIN calls' : calls'[i] \in status'
    BY <1>1, <1>3, <1>4 DEF IInv, Chain, ListedOnce, listVars
  <2>4. Len(calls') > 0 /\ calls'[1] = ROOT_DOMAIN /\ calls'[Len(calls')] = active_domain'
    BY <1>1, <1>3, <1>4 DEF IInv, Chain
  <2> QED
    BY <1>1, <2>1, <2>2, <2>3, <2>4 DEF Chain, Rewinding, RewindPc, InitPc
<1>12. Frames'
  <2>1. ASSUME NEW s \in Slot PROVE FrameOf(s)'
    <3>1. /\ sdi_buffer[s] \in Nat /\ sdi_buffer[s] <= Len(calls)
          /\ s \in ready /\ sdi_buffer[s] # 0 => calls[sdi_buffer[s]] = sdi_parent_domain[s]
      BY DEF IInv, Types, Frames, FrameOf
    <3>2. sdi_buffer[s] # 0 => calls'[sdi_buffer[s]] = calls[sdi_buffer[s]]
      BY <1>3, <1>4, <3>1
    <3> QED
      BY <1>1, <1>3, <1>4, <3>1, <3>2 DEF FrameOf, slotVars
  <2> QED
    BY <1>1, <2>1 DEF Frames, NodePc
<1>13. HeapInv'
  BY DEF IInv, HeapInv, EnterActive, Running, At, Goto, listVars, slotVars, locals, InitPc,
         DestroyPc
<1>14. SegvDeliverable'
  BY DEF IInv, SegvDeliverable, EnterActive, At, Goto, listVars, slotVars, locals
<1> QED
  BY <1>6, <1>7, <1>8, <1>9, <1>10, <1>11, <1>12, <1>13, <1>14 DEF IInv

(* If the new top has no stack, nothing follows. *)
LEMMA EnterSwitchPreserves ==
  ASSUME IInv, EnterSwitch
  PROVE  IInv'
<1>1. /\ ctl = "e_switch" /\ UNCHANGED <<listVars, slotVars, runVars, mask>>
      /\ \/ sdi_address_stack[sdi] = NULL /\ ctl' = "corrupt" /\ UNCHANGED locals
         \/ /\ sdi_address_stack[sdi] # NULL
            /\ ctl' = "app" /\ udi' = 0 /\ sdi' = MONITOR_DATA /\ pkey' = 0
  BY DEF EnterSwitch, ReturnFrom, At, Goto, MONITOR_DATA
<1>2. Types'
  <2>1. udi' \in Nat /\ sdi' \in Slot /\ pkey' \in Nat
    <3>1. CASE ctl' = "corrupt"
      BY <1>1, <3>1 DEF IInv, Types, locals
    <3>2. CASE ctl' = "app"
      BY <1>1, <3>2, SlotFacts
    <3> QED
      BY <1>1, <3>1, <3>2
  <2>2. ctl' \in Control
    BY <1>1 DEF Control, Over
  <2> QED
    BY <1>1, <2>1, <2>2 DEF IInv, Types, listVars, slotVars, runVars
<1>3. RootKeyKept'
  BY <1>1 DEF IInv, RootKeyKept, listVars, slotVars, runVars, locals, MONITOR_DATA, ROOT_DOMAIN
<1>4. BeingFilled'
  BY DEF IInv, BeingFilled, EnterSwitch, At, NULL, Goto, locals, ReturnFrom, listVars, slotVars,
         runVars
<1>5. MonitorSlot'
  BY <1>1
  DEF IInv, MonitorSlot, HalfFilled, NodePc, Rewinding, RewindPc, NULL, listVars, slotVars,
      runVars, locals
<1>6. ListedOnce'
  BY DEF IInv, ListedOnce, EnterSwitch, HalfFilled, NodePc, InitPc, At, NULL, Goto, locals,
         ReturnFrom, listVars, slotVars, runVars, MONITOR_DATA
<1>7. Chain'
  BY DEF IInv, Chain, EnterSwitch, ROOT_DOMAIN, Rewinding, InitPc, At, NULL, Goto, locals,
         ReturnFrom, listVars, slotVars, runVars, RewindPc
<1>8. Frames'
  BY DEF IInv, Frames, EnterSwitch, FrameOf, NodePc, At, NULL, Goto, locals, ReturnFrom,
         listVars, slotVars, runVars
<1>9. HeapInv'
  BY DEF IInv, HeapInv, EnterSwitch, Running, At, NULL, Goto, locals, ReturnFrom, listVars,
         slotVars, runVars, InitPc, DestroyPc
<1>10. SegvDeliverable'
  BY DEF IInv, SegvDeliverable, EnterSwitch, At, NULL, Goto, locals, ReturnFrom, listVars,
         slotVars, runVars
<1> QED
  BY <1>2, <1>3, <1>4, <1>5, <1>6, <1>7, <1>8, <1>9, <1>10 DEF IInv

(* The heap follows the active domain. *)
LEMMA ExitHeapPreserves ==
  ASSUME IInv, ExitHeap
  PROVE  IInv'
<1>1. Types'
  BY DEF IInv, Types, MonitorSlot, ExitHeap, Control, MONITOR_DATA, ROOT_DOMAIN, NULL,
         HalfFilled, NodePc, Rewinding, At, ReturnFrom, listVars, slotVars, InitPc, EnterPc,
         ExitPc, DestroyPc, HandlerPc, RewindPc, Over, Goto
<1>2. RootKeyKept'
  BY DEF IInv, RootKeyKept, ExitHeap, ROOT_DOMAIN, At, ReturnFrom, listVars, slotVars, Goto
<1>3. BeingFilled'
  BY DEF IInv, BeingFilled, ExitHeap, At, ReturnFrom, listVars, slotVars, Goto
<1>4. MonitorSlot'
  BY DEF IInv, MonitorSlot, ExitHeap, MONITOR_DATA, ROOT_DOMAIN, NULL, HalfFilled, NodePc,
         Rewinding, At, ReturnFrom, listVars, slotVars, RewindPc, Goto
<1>5. ListedOnce'
  BY DEF IInv, ListedOnce, ExitHeap, HalfFilled, NodePc, InitPc, At, ReturnFrom, listVars,
         slotVars, MONITOR_DATA, Goto
<1>6. Chain'
  BY DEF IInv, Chain, ExitHeap, ROOT_DOMAIN, Rewinding, InitPc, At, ReturnFrom, listVars,
         slotVars, RewindPc, Goto
<1>7. Frames'
  BY DEF IInv, Frames, ExitHeap, FrameOf, NodePc, At, ReturnFrom, listVars, slotVars, Goto
<1>8. HeapInv'
  BY DEF IInv, HeapInv, ExitHeap, Running, At, ReturnFrom, listVars, slotVars, InitPc,
         DestroyPc, Goto
<1>9. SegvDeliverable'
  BY DEF IInv, SegvDeliverable, ExitHeap, At, ReturnFrom, listVars, slotVars, Goto
<1> QED
  BY <1>1, <1>2, <1>3, <1>4, <1>5, <1>6, <1>7, <1>8, <1>9 DEF IInv

(* The root's key does not get into the cache. *)
LEMMA DestroyCachePreserves ==
  ASSUME IInv, DestroyCache
  PROVE  IInv'
<1>1. /\ UNCHANGED <<status, udi_control, next, slotVars, runVars, locals, mask>>
      /\ \/ ctl = "d_cache" /\ ctl' = "d_fill" /\ LinkEntry
         \/ ctl = "d_fill" /\ ctl' = "d_key" /\ FillEntry(sdi)
  BY DEF DestroyCache, At, Goto
<1>2. /\ cache' \in Seq(Entry) /\ cache' # <<>>
      /\ \A k \in DOMAIN cache' : cache'[k].key # 2
  BY <1>1, EntryFacts DEF IInv, BeingFilled
<1>3. Types'
  BY <1>1, <1>2 DEF IInv, Types, Entry, slotVars, runVars, locals, Control, DestroyPc
<1>4. RootKeyKept'
  BY <1>1, <1>2 DEF IInv, RootKeyKept, slotVars, runVars, locals
<1>5. BeingFilled'
  BY <1>1, <1>2 DEF BeingFilled
<1>6. MonitorSlot'
  BY DEF IInv, MonitorSlot, DestroyCache, MONITOR_DATA, ROOT_DOMAIN, NULL, HalfFilled, NodePc,
         Rewinding, At, LinkEntry, Goto, FillEntry, slotVars, runVars, locals, RewindPc
<1>7. ListedOnce'
  BY DEF IInv, ListedOnce, DestroyCache, HalfFilled, NodePc, InitPc, At, LinkEntry, Goto,
         FillEntry, slotVars, runVars, locals, MONITOR_DATA, NULL
<1>8. Chain'
  BY DEF IInv, Chain, DestroyCache, ROOT_DOMAIN, Rewinding, InitPc, At, LinkEntry, Goto,
         FillEntry, slotVars, runVars, locals, RewindPc, NULL
<1>9. Frames'
  BY DEF IInv, Frames, DestroyCache, FrameOf, NodePc, At, LinkEntry, Goto, FillEntry, slotVars,
         runVars, locals, NULL
<1>10. HeapInv'
  BY DEF IInv, HeapInv, DestroyCache, Running, At, LinkEntry, Goto, FillEntry, slotVars,
         runVars, locals, InitPc, DestroyPc, NULL
<1>11. SegvDeliverable'
  BY DEF IInv, SegvDeliverable, DestroyCache, At, LinkEntry, Goto, FillEntry, slotVars, runVars,
         locals, NULL
<1> QED
  BY <1>3, <1>4, <1>5, <1>6, <1>7, <1>8, <1>9, <1>10, <1>11 DEF IInv

(* The slot that loses its key is not the root's. *)
LEMMA DestroyKeyPreserves ==
  ASSUME IInv, DestroyKey
  PROVE  IInv'
<1>1. Types'
  BY DEF IInv, Types, DestroyKey, Control, At, Goto, listVars, runVars, locals, InitPc, EnterPc,
         ExitPc, DestroyPc, HandlerPc, RewindPc, Over
<1>2. RootKeyKept'
  BY DEF IInv, RootKeyKept, DestroyKey, ROOT_DOMAIN, At, Goto, listVars, runVars, locals
<1>3. BeingFilled'
  BY DEF IInv, BeingFilled, DestroyKey, At, Goto, listVars, runVars, locals
<1>4. MonitorSlot'
  BY DEF IInv, MonitorSlot, DestroyKey, MONITOR_DATA, ROOT_DOMAIN, NULL, HalfFilled, NodePc,
         Rewinding, At, Goto, listVars, runVars, locals, RewindPc
<1>5. ListedOnce'
  BY DEF IInv, ListedOnce, DestroyKey, HalfFilled, NodePc, InitPc, At, Goto, listVars, runVars,
         locals, MONITOR_DATA
<1>6. Chain'
  BY DEF IInv, Chain, DestroyKey, ROOT_DOMAIN, Rewinding, InitPc, At, Goto, listVars, runVars,
         locals, RewindPc
<1>7. Frames'
  BY DEF IInv, Frames, DestroyKey, FrameOf, NodePc, At, Goto, listVars, runVars, locals
<1>8. HeapInv'
  BY DEF IInv, HeapInv, DestroyKey, Running, At, Goto, listVars, runVars, locals, InitPc,
         DestroyPc
<1>9. SegvDeliverable'
  BY DEF IInv, SegvDeliverable, DestroyKey, At, Goto, listVars, runVars, locals
<1> QED
  BY <1>1, <1>2, <1>3, <1>4, <1>5, <1>6, <1>7, <1>8, <1>9 DEF IInv

(* The nodes that stay were there before. *)
LEMMA DestroyUnlistPreserves ==
  ASSUME IInv, DestroyUnlist
  PROVE  IInv'
<1>1. /\ udi_control' \in Seq(Node)
      /\ \A i \in DOMAIN udi_control' : \E p \in DOMAIN udi_control :
           udi_control'[i] = udi_control[p]
      /\ \A i, j \in DOMAIN udi_control' : i # j => \E p, q \in DOMAIN udi_control :
           p # q /\ udi_control'[i] = udi_control[p] /\ udi_control'[j] = udi_control[q]
      /\ (ctl' = "app" /\ mask' = mask) \/ RaiseSegv
  BY UnlistFacts DEF DestroyUnlist
<1>2. /\ ctl = "d_unlist" /\ ctl' \in {"app", "handler", "killed"}
      /\ mask \subseteq mask' /\ mask' \subseteq mask \cup {"SIGSEGV"}
  BY <1>1 DEF DestroyUnlist, At, RaiseSegv, Goto
<1>3. /\ udi' = 0 /\ sdi' = MONITOR_DATA /\ pkey' = 0
      /\ UNCHANGED <<status, cache, next, slotVars, runVars>>
  BY DEF DestroyUnlist, MONITOR_DATA
<1>4. Types'
  BY <1>1, <1>2, <1>3, SlotFacts
  DEF IInv, Types, Node, slotVars, runVars, Control, HandlerPc, Over
<1>5. RootKeyKept'
  BY <1>1, <1>2, <1>3 DEF IInv, RootKeyKept, slotVars, runVars, MONITOR_DATA, ROOT_DOMAIN
<1>6. BeingFilled'
  BY DEF IInv, BeingFilled, DestroyUnlist, At, Unlist, slotVars, runVars, NodeAt, Goto, First,
         RaiseSegv
<1>7. MonitorSlot'
  <2>1. \A k \in DOMAIN udi_control' : udi_control'[k].sdi # MONITOR_DATA
    BY <1>1 DEF IInv, MonitorSlot
  <2> QED
    BY <1>2, <1>3, <2>1 DEF IInv, MonitorSlot, NodePc, Rewinding, RewindPc, slotVars, runVars
<1>8. ListedOnce'
  <2>1. ASSUME NEW j \in DOMAIN udi_control', NEW k \in DOMAIN udi_control',
               j # k, udi_control'[j].sdi = udi_control'[k].sdi
        PROVE  HalfFilled(j)'
    BY <1>1, <2>1 DEF IInv, ListedOnce, HalfFilled
  <2>2. \A k \in DOMAIN udi_control' : udi_control'[k].sdi \in status' \/ HalfFilled(k)'
    BY <1>1, <1>3 DEF IInv, ListedOnce, HalfFilled
  <2> QED
    BY <1>2, <2>1, <2>2 DEF ListedOnce, NodePc, InitPc
<1>9. Chain'
  BY DEF IInv, Chain, DestroyUnlist, ROOT_DOMAIN, Rewinding, InitPc, At, Unlist, slotVars,
         runVars, RewindPc, NodeAt, Goto, First, RaiseSegv
<1>10. Frames'
  BY DEF IInv, Frames, DestroyUnlist, FrameOf, NodePc, At, Unlist, slotVars, runVars, NodeAt,
         Goto, First, RaiseSegv
<1>11. HeapInv'
  BY DEF IInv, HeapInv, DestroyUnlist, Running, At, Unlist, slotVars, runVars, InitPc,
         DestroyPc, NodeAt, Goto, First, RaiseSegv
<1>12. SegvDeliverable'
  BY DEF IInv, SegvDeliverable, DestroyUnlist, At, Unlist, slotVars, runVars, NodeAt, Goto,
         First, RaiseSegv
<1> QED
  BY <1>4, <1>5, <1>6, <1>7, <1>8, <1>9, <1>10, <1>11, <1>12 DEF IInv

(* A fault of application code, or of a call, is a matter of mask and        *)
(* control.                                                                  *)
LEMMA FaultPreserves ==
  ASSUME IInv, ctl = "app", UNCHANGED <<listVars, slotVars, runVars, locals>>,
         RaiseSegv \/ (ctl' \in {"longjmp", "corrupt"} /\ UNCHANGED mask)
  PROVE  IInv'
<1>1. ctl' \in {"handler", "killed", "longjmp", "corrupt"} /\ mask \subseteq mask'
  BY DEF RaiseSegv, Goto
<1>2. Types'
  BY <1>1 DEF IInv, Types, Control, RaiseSegv, Goto, listVars, slotVars, runVars, locals,
              HandlerPc, Over
<1>3. RootKeyKept'
  BY <1>1 DEF IInv, RootKeyKept, listVars, slotVars, runVars, locals
<1>4. BeingFilled'
  BY <1>1 DEF IInv, BeingFilled
<1>5. MonitorSlot'
  BY <1>1
  DEF IInv, MonitorSlot, NodePc, Rewinding, RewindPc, listVars, slotVars, runVars, locals
<1>6. ListedOnce'
  BY <1>1
  DEF IInv, ListedOnce, HalfFilled, NodePc, InitPc, listVars, slotVars, runVars, locals
<1>7. Chain'
  BY <1>1
  DEF IInv, Chain, Rewinding, RewindPc, InitPc, listVars, slotVars, runVars, locals
<1>8. Frames'
  BY <1>1 DEF IInv, Frames, FrameOf, NodePc, listVars, slotVars, runVars, locals
<1>9. HeapInv'
  BY <1>1 DEF IInv, HeapInv, Running, InitPc, DestroyPc
<1>10. SegvDeliverable'
  BY <1>1 DEF IInv, SegvDeliverable, RaiseSegv, Goto
<1> QED
  BY <1>2, <1>3, <1>4, <1>5, <1>6, <1>7, <1>8, <1>9, <1>10 DEF IInv

(* A domain violates its bounds. *)
LEMMA ViolationPreserves ==
  ASSUME IInv, Violation
  PROVE  IInv'
BY FaultPreserves DEF Violation, App, Goto

(* A call works on a node without a slot. *)
LEMMA CallWithoutSlotPreserves ==
  ASSUME IInv, NEW u \in Udi, CallWithoutSlot(u)
  PROVE  IInv'
BY FaultPreserves DEF CallWithoutSlot, App, Goto

(* A timer that interrupts a rewind cuts the chain like its end. *)
LEMMA AlarmPreserves ==
  ASSUME IInv, Alarm
  PROVE  IInv'
<1>1. /\ ctl \notin Over /\ "SIGALRM" \notin mask
      /\ mask' = mask \cup {"SIGALRM"} /\ ctl' = "handler" /\ Cut
      /\ UNCHANGED <<listVars, pdi, sdi_address_stack, sdi_parent_domain, sdi_saved_ex, ready,
                     active_domain, tlsf_structure, locals>>
  BY DEF Alarm, Goto
<1>2. ~Rewinding => UNCHANGED <<calls, sdi_buffer>>
  BY <1>1 DEF Cut
<1>3. /\ Len(calls) \in Nat /\ DOMAIN calls = 1 .. Len(calls)
  BY ChainFacts DEF IInv

<1>4. ASSUME Rewinding
      PROVE  /\ Len(calls) > 1 /\ calls[Len(calls)] = sdi
             /\ active_domain = sdi_parent_domain[sdi]
             /\ calls' \in Seq(Slot) /\ sdi_buffer' \in [Slot -> Nat]
             /\ Len(calls') = Len(calls) - 1 /\ DOMAIN calls' = 1 .. Len(calls) - 1
             /\ \A i \in 1 .. Len(calls) - 1 : calls'[i] = calls[i]
             /\ \A i \in DOMAIN calls' : i > 1 =>
                  /\ sdi_parent_domain'[calls'[i]] = calls'[i - 1]
                  /\ sdi_buffer'[calls'[i]] = i - 1
             /\ calls'[Len(calls')] = active_domain
             /\ \A s \in Slot : FrameOf(s)'
  <2>1. /\ Len(calls) > 1 /\ calls[Len(calls)] = sdi
        /\ active_domain = sdi_parent_domain[sdi]
    BY <1>4, RewindingFacts
  <2>2. calls' = Front(calls) /\ sdi_buffer' = FramesUpTo(Len(calls) - 1)
    BY <1>1, <1>4 DEF Cut
  <2> QED
    BY <1>1, <2>1, <2>2, CutFacts

<1>5. \A i \in DOMAIN calls' : i \in DOMAIN calls /\ calls'[i] = calls[i]
  <2>1. CASE Rewinding
    BY <1>3, <1>4, <2>1
  <2>2. CASE ~Rewinding
    BY <1>2, <2>2
  <2> QED
    BY <2>1, <2>2
<1>6. Types'
  BY <1>1, <1>2, <1>4 DEF IInv, Types, listVars, locals, Control, HandlerPc
<1>7. RootKeyKept'
  BY DEF IInv, RootKeyKept, Alarm, ROOT_DOMAIN, Over, Cut, Goto, listVars, locals, Rewinding,
         FramesUpTo, RewindPc
<1>8. BeingFilled'
  BY DEF IInv, BeingFilled, Alarm, Over, Cut, Goto, listVars, locals, Rewinding, FramesUpTo,
         RewindPc
<1>9. MonitorSlot'
  <2>1. \A i \in DOMAIN calls' : calls'[i] # MONITOR_DATA
    BY <1>1, <1>5 DEF IInv, MonitorSlot, Over
  <2> QED
    BY <1>1, <2>1
    DEF IInv, MonitorSlot, HalfFilled, NodePc, Rewinding, RewindPc, listVars, locals
<1>10. ListedOnce'
  BY DEF IInv, ListedOnce, Alarm, HalfFilled, NodePc, InitPc, Over, Cut, Goto, listVars,
         locals, MONITOR_DATA, Rewinding, FramesUpTo, RewindPc
<1>11. Chain'
  <2>2. \A i \in DOMAIN calls' : calls'[i] \in status'
    <3>1. CASE Rewinding
      BY <1>1, <1>3, <1>4, <3>1 DEF IInv, Chain, listVars
    <3>2. CASE ~Rewinding
      BY <1>1, <1>2, <3>2 DEF IInv, Chain, Rewinding, RewindPc, listVars
    <3> QED
      BY <3>1, <3>2
  <2>3. calls'[Len(calls')] = active_domain'
    BY <1>1, <1>2, <1>4 DEF IInv, Chain, Over
  <2>4. \A i \in DOMAIN calls' : i > 1 =>
          /\ sdi_parent_domain'[calls'[i]] = calls'[i - 1]
          /\ sdi_buffer'[calls'[i]] = i - 1
    BY <1>1, <1>2, <1>4 DEF IInv, Chain
  <2>5. Len(calls') > 0 /\ calls'[1] = ROOT_DOMAIN
    <3>1. CASE Rewinding
      BY <1>3, <1>4, <3>1 DEF IInv, Chain
    <3>2. CASE ~Rewinding
      BY <1>2, <3>2 DEF IInv, Chain
    <3> QED
      BY <3>1, <3>2
  <2>6. \A i, j \in DOMAIN calls' : calls'[i] = calls'[j] => i = j
    BY <1>5 DEF IInv, Chain
  <2> QED
    BY <1>1, <2>2, <2>3, <2>4, <2>5, <2>6 DEF Chain, Rewinding, RewindPc, InitPc
<1>12. Frames'
  <2>1. \A s \in Slot : FrameOf(s)'
    BY <1>1, <1>2, <1>4 DEF IInv, Frames, FrameOf
  <2> QED
    BY <1>1, <2>1 DEF Frames, NodePc
<1>13. HeapInv'
  BY DEF IInv, HeapInv, Alarm, Running, Over, Cut, Goto, listVars, locals, InitPc, DestroyPc,
         Rewinding, FramesUpTo, RewindPc
<1>14. SegvDeliverable'
  BY DEF IInv, SegvDeliverable, Alarm, Over, Cut, Goto, listVars, locals, Rewinding, FramesUpTo,
         RewindPc
<1> QED
  BY <1>6, <1>7, <1>8, <1>9, <1>10, <1>11, <1>12, <1>13, <1>14 DEF IInv

(* SIGSEGV is unblocked, SIGALRM stays blocked. *)
LEMMA sdrad_signal_handlerPreserves ==
  ASSUME IInv, sdrad_signal_handler
  PROVE  IInv'
<1>1. Types'
  BY DEF IInv, Types, sdrad_signal_handler, Control, At, MaskInHandler, Goto, listVars,
         slotVars, runVars, locals, InitPc, EnterPc, ExitPc, DestroyPc, HandlerPc, RewindPc,
         Over
<1>2. RootKeyKept'
  BY DEF IInv, RootKeyKept, sdrad_signal_handler, ROOT_DOMAIN, At, MaskInHandler, Goto,
         listVars, slotVars, runVars, locals
<1>3. BeingFilled'
  BY DEF IInv, BeingFilled, sdrad_signal_handler, At, MaskInHandler, Goto, listVars, slotVars,
         runVars, locals
<1>4. MonitorSlot'
  BY DEF IInv, MonitorSlot, sdrad_signal_handler, MONITOR_DATA, ROOT_DOMAIN, NULL, HalfFilled,
         NodePc, Rewinding, At, MaskInHandler, Goto, listVars, slotVars, runVars, locals,
         RewindPc
<1>5. ListedOnce'
  BY DEF IInv, ListedOnce, sdrad_signal_handler, HalfFilled, NodePc, InitPc, At, MaskInHandler,
         Goto, listVars, slotVars, runVars, locals, MONITOR_DATA
<1>6. Chain'
  BY DEF IInv, Chain, sdrad_signal_handler, ROOT_DOMAIN, Rewinding, InitPc, At, MaskInHandler,
         Goto, listVars, slotVars, runVars, locals, RewindPc
<1>7. Frames'
  BY DEF IInv, Frames, sdrad_signal_handler, FrameOf, NodePc, At, MaskInHandler, Goto, listVars,
         slotVars, runVars, locals
<1>8. HeapInv'
  BY DEF IInv, HeapInv, sdrad_signal_handler, Running, At, MaskInHandler, Goto, listVars,
         slotVars, runVars, locals, InitPc, DestroyPc
<1>9. SegvDeliverable'
  BY DEF IInv, SegvDeliverable, sdrad_signal_handler, At, MaskInHandler, Goto, listVars,
         slotVars, runVars, locals
<1> QED
  BY <1>1, <1>2, <1>3, <1>4, <1>5, <1>6, <1>7, <1>8, <1>9 DEF IInv

(* The root does not get to the rewind: its key is its own. *)
LEMMA sdrad_abnormal_domain_exitPreserves ==
  ASSUME IInv, sdrad_abnormal_domain_exit
  PROVE  IInv'
<1>1. Types'
  BY DEF IInv, Types, MonitorSlot, sdrad_abnormal_domain_exit, Control, MONITOR_DATA,
         ROOT_DOMAIN, NULL, HalfFilled, NodePc, Rewinding, At, Goto, HasRootKey, listVars,
         slotVars, runVars, InitPc, EnterPc, ExitPc, DestroyPc, HandlerPc, RewindPc, Over
<1>2. RootKeyKept'
  BY DEF IInv, RootKeyKept, sdrad_abnormal_domain_exit, ROOT_DOMAIN, At, Goto, HasRootKey,
         listVars, slotVars, runVars
<1>3. BeingFilled'
  BY DEF IInv, BeingFilled, sdrad_abnormal_domain_exit, At, Goto, HasRootKey, listVars,
         slotVars, runVars, ROOT_DOMAIN
<1>4. MonitorSlot'
  BY DEF IInv, MonitorSlot, sdrad_abnormal_domain_exit, MONITOR_DATA, ROOT_DOMAIN, NULL,
         HalfFilled, NodePc, Rewinding, At, Goto, HasRootKey, listVars, slotVars, runVars,
         RewindPc
<1>5. ListedOnce'
  BY DEF IInv, ListedOnce, sdrad_abnormal_domain_exit, HalfFilled, NodePc, InitPc, At, Goto,
         HasRootKey, listVars, slotVars, runVars, MONITOR_DATA, ROOT_DOMAIN
<1>6. Chain'
  BY DEF IInv, Chain, sdrad_abnormal_domain_exit, ROOT_DOMAIN, Rewinding, InitPc, At, Goto,
         HasRootKey, listVars, slotVars, runVars, RewindPc
<1>7. Frames'
  BY DEF IInv, Frames, sdrad_abnormal_domain_exit, FrameOf, NodePc, At, Goto, HasRootKey,
         listVars, slotVars, runVars, ROOT_DOMAIN
<1>8. HeapInv'
  BY DEF IInv, HeapInv, sdrad_abnormal_domain_exit, Running, At, Goto, HasRootKey, listVars,
         slotVars, runVars, InitPc, DestroyPc, ROOT_DOMAIN
<1>9. SegvDeliverable'
  BY DEF IInv, SegvDeliverable, sdrad_abnormal_domain_exit, At, Goto, HasRootKey, listVars,
         slotVars, runVars, ROOT_DOMAIN
<1> QED
  BY <1>1, <1>2, <1>3, <1>4, <1>5, <1>6, <1>7, <1>8, <1>9 DEF IInv

(* The faulted domain is the top of the chain, and not slot 0. *)
LEMMA RewindStartPreserves ==
  ASSUME IInv, RewindStart
  PROVE  IInv'
<1>1. /\ ctl = "rewind" /\ ctl' = "r_cache" /\ sdi' = active_domain
      /\ UNCHANGED <<listVars, slotVars, calls, mask>>
  BY DEF RewindStart, At, Goto
<1>2. Types'
  BY DEF IInv, Types, RewindStart, Control, At, Goto, listVars, slotVars, InitPc, EnterPc,
         ExitPc, DestroyPc, HandlerPc, RewindPc, Over
<1>3. RootKeyKept'
  BY DEF IInv, RootKeyKept, RewindStart, ROOT_DOMAIN, At, Goto, listVars, slotVars
<1>4. BeingFilled'
  BY DEF IInv, BeingFilled, RewindStart, At, Goto, listVars, slotVars
<1>5. MonitorSlot'
  <2>1. active_domain # MONITOR_DATA
    <3>1. calls[Len(calls)] = active_domain /\ Len(calls) \in DOMAIN calls
      BY <1>1, ChainFacts DEF IInv, Chain, Rewinding, RewindPc
    <3> QED
      BY <1>1, <3>1 DEF IInv, MonitorSlot
  <2> QED
    BY <1>1, <2>1 DEF IInv, MonitorSlot, HalfFilled, NodePc, listVars, slotVars
<1>6. ListedOnce'
  BY DEF IInv, ListedOnce, RewindStart, HalfFilled, NodePc, InitPc, At, Goto, listVars,
         slotVars, MONITOR_DATA
<1>7. Chain'
  BY DEF IInv, Chain, RewindStart, ROOT_DOMAIN, Rewinding, InitPc, At, Goto, listVars, slotVars,
         RewindPc
<1>8. Frames'
  BY DEF IInv, Frames, RewindStart, FrameOf, NodePc, At, Goto, listVars, slotVars
<1>9. HeapInv'
  BY DEF IInv, HeapInv, RewindStart, Running, At, Goto, listVars, slotVars, InitPc, DestroyPc
<1>10. SegvDeliverable'
  BY DEF IInv, SegvDeliverable, RewindStart, At, Goto, listVars, slotVars
<1> QED
  BY <1>2, <1>3, <1>4, <1>5, <1>6, <1>7, <1>8, <1>9, <1>10 DEF IInv

(* The root's key does not get into the cache. *)
LEMMA RewindCachePreserves ==
  ASSUME IInv, RewindCache
  PROVE  IInv'
<1>1. /\ UNCHANGED <<status, udi_control, next, slotVars, runVars, locals, mask>>
      /\ \/ ctl = "r_cache" /\ ctl' = "r_fill" /\ LinkEntry
         \/ ctl = "r_fill" /\ ctl' = "r_unlist" /\ FillEntry(sdi)
  BY DEF RewindCache, At, Goto
<1>2. /\ cache' \in Seq(Entry) /\ cache' # <<>>
      /\ \A k \in DOMAIN cache' : cache'[k].key # 2
  BY <1>1, EntryFacts DEF IInv, BeingFilled
<1>3. Types'
  BY <1>1, <1>2 DEF IInv, Types, Entry, slotVars, runVars, locals, Control, RewindPc
<1>4. RootKeyKept'
  BY <1>1, <1>2 DEF IInv, RootKeyKept, slotVars, runVars, locals
<1>5. BeingFilled'
  BY <1>1, <1>2 DEF BeingFilled
<1>6. MonitorSlot'
  BY DEF IInv, MonitorSlot, RewindCache, MONITOR_DATA, ROOT_DOMAIN, NULL, HalfFilled, NodePc,
         Rewinding, At, LinkEntry, Goto, FillEntry, slotVars, runVars, locals, RewindPc
<1>7. ListedOnce'
  BY DEF IInv, ListedOnce, RewindCache, HalfFilled, NodePc, InitPc, At, LinkEntry, Goto,
         FillEntry, slotVars, runVars, locals, MONITOR_DATA, NULL
<1>8. Chain'
  BY DEF IInv, Chain, RewindCache, ROOT_DOMAIN, Rewinding, InitPc, At, LinkEntry, Goto,
         FillEntry, slotVars, runVars, locals, RewindPc, NULL
<1>9. Frames'
  BY DEF IInv, Frames, RewindCache, FrameOf, NodePc, At, LinkEntry, Goto, FillEntry, slotVars,
         runVars, locals, NULL
<1>10. HeapInv'
  BY DEF IInv, HeapInv, RewindCache, Running, At, LinkEntry, Goto, FillEntry, slotVars, runVars,
         locals, InitPc, DestroyPc, NULL
<1>11. SegvDeliverable'
  BY DEF IInv, SegvDeliverable, RewindCache, At, LinkEntry, Goto, FillEntry, slotVars, runVars,
         locals, NULL
<1> QED
  BY <1>3, <1>4, <1>5, <1>6, <1>7, <1>8, <1>9, <1>10, <1>11 DEF IInv

(* The faulted domain's only node goes; a fault in free() cuts the chain. *)
LEMMA RewindUnlistPreserves ==
  ASSUME IInv, RewindUnlist
  PROVE  IInv'
<1>1. /\ ctl = "r_unlist" /\ Unlist(sdi, "r_status")
      /\ IF ctl' = "r_status" THEN UNCHANGED <<calls, sdi_buffer>> ELSE Cut
      /\ UNCHANGED <<status, cache, next, pdi, sdi_address_stack, sdi_parent_domain,
                     sdi_saved_ex, ready, active_domain, tlsf_structure, locals>>
  BY DEF RewindUnlist, At
<1>2. /\ udi_control' \in Seq(Node)
      /\ \A i \in DOMAIN udi_control' : \E p \in DOMAIN udi_control :
           udi_control'[i] = udi_control[p]
      /\ \A i, j \in DOMAIN udi_control' : i # j => \E p, q \in DOMAIN udi_control :
           p # q /\ udi_control'[i] = udi_control[p] /\ udi_control'[j] = udi_control[q]
      /\ \A i \in DOMAIN udi_control' : udi_control'[i].sdi # sdi
      /\ (ctl' = "r_status" /\ mask' = mask) \/ RaiseSegv
  BY <1>1, UnlistFacts
<1>3. /\ ctl' \in {"r_status", "handler", "killed"}
      /\ mask \subseteq mask' /\ mask' \subseteq mask \cup {"SIGSEGV"}
  BY <1>2 DEF RaiseSegv, Goto
<1>4. /\ Len(calls) \in Nat /\ DOMAIN calls = 1 .. Len(calls)
      /\ Rewinding /\ sdi # MONITOR_DATA /\ calls[Len(calls)] = sdi
      /\ active_domain = sdi_parent_domain[sdi]
  BY <1>1, ChainFacts DEF IInv, MonitorSlot, Chain, Rewinding, RewindPc

<1>5. ASSUME ctl' # "r_status"
      PROVE  /\ Len(calls) > 1 /\ calls[Len(calls)] = sdi
             /\ active_domain = sdi_parent_domain[sdi]
             /\ calls' \in Seq(Slot) /\ sdi_buffer' \in [Slot -> Nat]
             /\ Len(calls') = Len(calls) - 1 /\ DOMAIN calls' = 1 .. Len(calls) - 1
             /\ \A i \in 1 .. Len(calls) - 1 : calls'[i] = calls[i]
             /\ \A i \in DOMAIN calls' : i > 1 =>
                  /\ sdi_parent_domain'[calls'[i]] = calls'[i - 1]
                  /\ sdi_buffer'[calls'[i]] = i - 1
             /\ calls'[Len(calls')] = active_domain
             /\ \A s \in Slot : FrameOf(s)'
  <2>1. /\ Len(calls) > 1 /\ calls[Len(calls)] = sdi
        /\ active_domain = sdi_parent_domain[sdi]
    BY <1>4, RewindingFacts
  <2>2. calls' = Front(calls) /\ sdi_buffer' = FramesUpTo(Len(calls) - 1)
    BY <1>1, <1>4, <1>5 DEF Cut
  <2> QED
    BY <1>1, <2>1, <2>2, CutFacts

<1>6. \A i \in DOMAIN calls' : i \in DOMAIN calls /\ calls'[i] = calls[i]
  <2>1. CASE ctl' = "r_status"
    BY <1>1, <2>1
  <2>2. CASE ctl' # "r_status"
    BY <1>4, <1>5, <2>2
  <2> QED
    BY <2>1, <2>2
<1>7. Types'
  BY <1>1, <1>2, <1>3, <1>5
  DEF IInv, Types, Node, locals, Control, RewindPc, HandlerPc, Over
<1>8. RootKeyKept'
  <2>1. \A k \in DOMAIN udi_control' : udi_control'[k].sdi # ROOT_DOMAIN
    BY <1>2 DEF IInv, RootKeyKept
  <2> QED
    BY <1>1, <1>3, <2>1 DEF IInv, RootKeyKept, locals
<1>9. BeingFilled'
  BY DEF IInv, BeingFilled, RewindUnlist, At, Unlist, Cut, locals, NodeAt, Goto, First,
         RaiseSegv, Rewinding, FramesUpTo, RewindPc
<1>10. MonitorSlot'
  <2>1. \A k \in DOMAIN udi_control' : udi_control'[k].sdi # MONITOR_DATA
    BY <1>2 DEF IInv, MonitorSlot
  <2>2. \A i \in DOMAIN calls' : calls'[i] # MONITOR_DATA
    BY <1>1, <1>6 DEF IInv, MonitorSlot
  <2> QED
    BY <1>1, <1>3, <1>4, <2>1, <2>2 DEF IInv, MonitorSlot, NodePc, Rewinding, RewindPc, locals
<1>11. ListedOnce'
  <2>1. ASSUME NEW j \in DOMAIN udi_control', NEW k \in DOMAIN udi_control',
               j # k, udi_control'[j].sdi = udi_control'[k].sdi
        PROVE  HalfFilled(j)'
    BY <1>2, <2>1 DEF IInv, ListedOnce, HalfFilled
  <2>2. \A k \in DOMAIN udi_control' : udi_control'[k].sdi \in status' \/ HalfFilled(k)'
    BY <1>1, <1>2 DEF IInv, ListedOnce, HalfFilled
  <2> QED
    BY <1>1, <1>2, <1>3, <1>4, <2>1, <2>2 DEF ListedOnce, NodePc, InitPc, locals
<1>12. Chain'
  <2>1. CASE ctl' = "r_status"
    BY <1>1, <1>4, <2>1 DEF IInv, Chain, Rewinding, RewindPc, InitPc, locals
  <2>2. CASE ctl' # "r_status"
    <3>2. \A i \in DOMAIN calls' : calls'[i] \in status'
      BY <1>1, <1>6 DEF IInv, Chain
    <3>3. Len(calls') > 0 /\ calls'[1] = ROOT_DOMAIN
      BY <1>4, <1>5, <2>2 DEF IInv, Chain
    <3>4. \A i, j \in DOMAIN calls' : calls'[i] = calls'[j] => i = j
      BY <1>6 DEF IInv, Chain
    <3> QED
      BY <1>1, <1>3, <1>5, <2>2, <3>2, <3>3, <3>4 DEF Chain, Rewinding, RewindPc, InitPc
  <2> QED
    BY <2>1, <2>2
<1>13. Frames'
  <2>1. \A s \in Slot : FrameOf(s)'
    BY <1>1, <1>5 DEF IInv, Frames, FrameOf
  <2> QED
    BY <1>3, <2>1 DEF Frames, NodePc
<1>14. HeapInv'
  BY DEF IInv, HeapInv, RewindUnlist, Running, At, Unlist, Cut, locals, InitPc, DestroyPc,
         NodeAt, Goto, First, RaiseSegv, Rewinding, FramesUpTo, RewindPc
<1>15. SegvDeliverable'
  BY DEF IInv, SegvDeliverable, RewindUnlist, At, Unlist, Cut, locals, NodeAt, Goto, First,
         RaiseSegv, Rewinding, FramesUpTo, RewindPc
<1> QED
  BY <1>7, <1>8, <1>9, <1>10, <1>11, <1>12, <1>13, <1>14, <1>15 DEF IInv

(* The slot is freed when nothing but the chain's top refers to it. *)
LEMMA RewindStatusPreserves ==
  ASSUME IInv, RewindStatus
  PROVE  IInv'
<1>1. /\ ctl = "r_status" /\ ctl' = "r_resume" /\ status' = status \ {sdi}
      /\ UNCHANGED <<slotVars, runVars, locals>>
  BY DEF RewindStatus, At, Goto
<1>2. Types'
  BY DEF IInv, Types, RewindStatus, Control, At, Goto, slotVars, runVars, locals, InitPc,
         EnterPc, ExitPc, DestroyPc, HandlerPc, RewindPc, Over
<1>3. RootKeyKept'
  BY DEF IInv, RootKeyKept, RewindStatus, ROOT_DOMAIN, At, Goto, slotVars, runVars, locals
<1>4. BeingFilled'
  BY DEF IInv, BeingFilled, RewindStatus, At, Goto, slotVars, runVars, locals
<1>5. MonitorSlot'
  BY DEF IInv, MonitorSlot, RootKeyKept, RewindStatus, MONITOR_DATA, ROOT_DOMAIN, NULL,
         HalfFilled, NodePc, Rewinding, At, Goto, slotVars, runVars, locals, RewindPc
<1>6. ListedOnce'
  BY DEF IInv, ListedOnce, RewindStatus, HalfFilled, NodePc, InitPc, At, Goto, slotVars,
         runVars, locals, MONITOR_DATA
<1>7. Chain'
  <2>1. calls[Len(calls)] = sdi /\ Len(calls) \in DOMAIN calls
    BY <1>1, ChainFacts DEF IInv, Chain, Rewinding, RewindPc
  <2>2. \A i \in DOMAIN calls : calls[i] \in status' \/ i = Len(calls)
    BY <1>1, <2>1 DEF IInv, Chain
  <2> QED
    BY <1>1, <2>2 DEF IInv, Chain, Rewinding, RewindPc, InitPc, slotVars, runVars, locals
<1>8. Frames'
  BY DEF IInv, Frames, RewindStatus, FrameOf, NodePc, At, Goto, slotVars, runVars, locals
<1>9. HeapInv'
  BY DEF IInv, HeapInv, RewindStatus, Running, At, Goto, slotVars, runVars, locals, InitPc,
         DestroyPc
<1>10. SegvDeliverable'
  BY DEF IInv, SegvDeliverable, RewindStatus, At, Goto, slotVars, runVars, locals
<1> QED
  BY <1>2, <1>3, <1>4, <1>5, <1>6, <1>7, <1>8, <1>9, <1>10 DEF IInv

(* The chain loses the faulted domain. *)
LEMMA RewindResumePreserves ==
  ASSUME IInv, RewindResume
  PROVE  IInv'
<1>1. /\ ctl = "r_resume" /\ Rewinding /\ Cut
     /\ active_domain' = sdi_parent_domain[sdi] /\ tlsf_structure' = sdi_parent_domain[sdi]
     /\ ctl' = "app" /\ udi' = 0 /\ sdi' = MONITOR_DATA /\ pkey' = 0
     /\ UNCHANGED <<listVars, pdi, sdi_address_stack, sdi_parent_domain, sdi_saved_ex, ready,
                    mask>>
  BY DEF RewindResume, HeapOfResumed, ReturnFrom, At, Goto, MONITOR_DATA, Rewinding, RewindPc
<1>2. /\ Len(calls) > 1 /\ calls[Len(calls)] = sdi
      /\ active_domain = sdi_parent_domain[sdi]
  BY <1>1, RewindingFacts
<1>3. /\ Len(calls) \in Nat /\ DOMAIN calls = 1 .. Len(calls)
  BY ChainFacts DEF IInv
<1>4. /\ calls' \in Seq(Slot) /\ sdi_buffer' \in [Slot -> Nat]
      /\ Len(calls') = Len(calls) - 1 /\ DOMAIN calls' = 1 .. Len(calls) - 1
      /\ \A i \in 1 .. Len(calls) - 1 : calls'[i] = calls[i]
      /\ \A i \in DOMAIN calls' : i > 1 =>
           /\ sdi_parent_domain'[calls'[i]] = calls'[i - 1]
           /\ sdi_buffer'[calls'[i]] = i - 1
      /\ calls'[Len(calls')] = sdi_parent_domain[calls[Len(calls)]]
      /\ \A s \in Slot : FrameOf(s)'
  <2>1. calls' = Front(calls) /\ sdi_buffer' = FramesUpTo(Len(calls) - 1)
    BY <1>1 DEF Cut
  <2> QED
    BY <1>1, <1>2, <2>1, CutFacts
<1>5. Types'
  BY <1>1, <1>4, SlotFacts DEF IInv, Types, listVars, Control
<1>6. RootKeyKept'
  BY DEF IInv, RootKeyKept, RewindResume, ROOT_DOMAIN, At, HeapOfResumed, Cut, ReturnFrom,
         listVars, Rewinding, FramesUpTo, Goto, RewindPc
<1>7. BeingFilled'
  BY DEF IInv, BeingFilled, RewindResume, At, HeapOfResumed, Cut, ReturnFrom, listVars,
         Rewinding, FramesUpTo, Goto, RewindPc
<1>8. MonitorSlot'
  <2>1. \A i \in DOMAIN calls' : calls'[i] # MONITOR_DATA
    BY <1>1, <1>3, <1>4 DEF IInv, MonitorSlot
  <2> QED
    BY <1>1, <2>1 DEF IInv, MonitorSlot, HalfFilled, NodePc, Rewinding, RewindPc, listVars
<1>9. ListedOnce'
  BY DEF IInv, ListedOnce, RewindResume, HalfFilled, NodePc, InitPc, At, HeapOfResumed, Cut,
         ReturnFrom, listVars, MONITOR_DATA, Rewinding, FramesUpTo, Goto, RewindPc
<1>10. Chain'
  <2>1. \A i \in DOMAIN calls' : i \in DOMAIN calls /\ i # Len(calls) /\ calls'[i] = calls[i]
    BY <1>3, <1>4
  <2>2. \A i \in DOMAIN calls' : calls'[i] \in status'
    BY <1>1, <2>1 DEF IInv, Chain, listVars
  <2>3. Len(calls') > 0 /\ calls'[1] = ROOT_DOMAIN
    BY <1>2, <1>3, <1>4 DEF IInv, Chain
  <2>4. \A i, j \in DOMAIN calls' : calls'[i] = calls'[j] => i = j
    BY <2>1 DEF IInv, Chain
  <2> QED
    BY <1>1, <1>2, <1>4, <2>2, <2>3, <2>4 DEF Chain, Rewinding, RewindPc, InitPc
<1>11. Frames'
  BY <1>1, <1>4 DEF Frames, NodePc
<1>12. HeapInv'
  BY DEF IInv, HeapInv, RewindResume, Running, At, HeapOfResumed, Cut, ReturnFrom, listVars,
         InitPc, DestroyPc, Rewinding, FramesUpTo, Goto, RewindPc
<1>13. SegvDeliverable'
  BY DEF IInv, SegvDeliverable, RewindResume, At, HeapOfResumed, Cut, ReturnFrom, listVars,
         Rewinding, FramesUpTo, Goto, RewindPc
<1> QED
  BY <1>5, <1>6, <1>7, <1>8, <1>9, <1>10, <1>11, <1>12, <1>13 DEF IInv

(* Nothing changes. *)
LEMMA EndedPreserves ==
  ASSUME IInv, UNCHANGED vars
  PROVE  IInv'
<1>1. UNCHANGED <<status, udi_control, cache, next, pdi, sdi_address_stack, sdi_parent_domain,
                  sdi_saved_ex, sdi_buffer, ready, active_domain, tlsf_structure, calls, udi, sdi,
                  pkey, mask, ctl>>
  BY DEF vars, listVars, slotVars, runVars, locals
<1>2. Types' /\ RootKeyKept'
  BY <1>1 DEF IInv, Types, RootKeyKept
<1>3. BeingFilled' /\ MonitorSlot' /\ HeapInv' /\ SegvDeliverable'
  BY <1>1 DEF IInv, BeingFilled, MonitorSlot, HalfFilled, Rewinding, HeapInv, SegvDeliverable
<1>4. ListedOnce' /\ Chain' /\ Frames'
  BY <1>1 DEF IInv, ListedOnce, HalfFilled, Chain, Frames, FrameOf, Rewinding
<1> QED
  BY <1>2, <1>3, <1>4 DEF IInv

-----------------------------------------------------------------------------
(* The invariant holds *)

(* The state that the constructor leaves. *)
LEMMA InitIInv == Init => IInv
<1> SUFFICES ASSUME Init PROVE IInv
  OBVIOUS
<1>1. /\ calls = <<ROOT_DOMAIN>> /\ calls \in Seq(Slot) /\ Len(calls) = 1 /\ DOMAIN calls = {1}
      /\ udi_control = <<>> /\ udi_control \in Seq([udi : Nat, sdi : Slot \cup {NO_SLOT}])
      /\ cache = <<>> /\ cache \in Seq([key : Nat, stack : Nat])
      /\ DOMAIN udi_control = {} /\ DOMAIN cache = {}
  BY SlotFacts DEF Init
<1>2. ctl = "app" /\ mask = {} /\ MONITOR_DATA \in Slot /\ ROOT_DOMAIN \in Slot
  BY SlotFacts DEF Init
<1>3. Types
  BY <1>1, <1>2, SlotFacts DEF Init, Types, Control, MONITOR_DATA, ROOT_DOMAIN, NULL
<1>4. RootKeyKept
  BY <1>1, <1>2 DEF Init, RootKeyKept, MONITOR_DATA, ROOT_DOMAIN
<1>5. BeingFilled /\ SegvDeliverable
  BY <1>2 DEF BeingFilled, SegvDeliverable
<1>6. MonitorSlot
  BY <1>1, <1>2 DEF Init, MonitorSlot, NodePc, Rewinding, RewindPc, MONITOR_DATA, ROOT_DOMAIN, NULL
<1>7. ListedOnce
  BY <1>1, <1>2 DEF ListedOnce, NodePc, InitPc
<1>8. Chain
  BY <1>1, <1>2 DEF Init, Chain, Rewinding, RewindPc, InitPc
<1>9. Frames /\ HeapInv
  BY <1>1, <1>2 DEF Init, Frames, FrameOf, NodePc, HeapInv
<1> QED
  BY <1>3, <1>4, <1>5, <1>6, <1>7, <1>8, <1>9 DEF IInv

(* Every step keeps the invariant. *)
LEMMA NextIInv ==
  ASSUME IInv, [Next]_vars
  PROVE  IInv'
<1>1. CASE UNCHANGED vars
  BY <1>1, EndedPreserves
<1>2. ASSUME NEW u \in Udi,
             sdrad_init(u) \/ sdrad_deinit(u) \/ sdrad_enter(u) \/ sdrad_destroy(u)
               \/ CallWithoutSlot(u)
      PROVE  IInv'
  BY <1>2, sdrad_initPreserves, sdrad_deinitPreserves, sdrad_enterPreserves,
     sdrad_destroyPreserves, CallWithoutSlotPreserves
<1>3. CASE LibraryStep
  BY <1>3, InitSlotPreserves, InitNodePreserves, InitKeyPreserves, InitStackPreserves,
     InitContextPreserves, EnterActivePreserves, EnterSwitchPreserves, ExitHeapPreserves,
     DestroyCachePreserves, DestroyKeyPreserves, DestroyUnlistPreserves
  DEF LibraryStep
<1>4. CASE Recovery
  BY <1>4, sdrad_signal_handlerPreserves, sdrad_abnormal_domain_exitPreserves,
     RewindStartPreserves, RewindCachePreserves, RewindUnlistPreserves, RewindStatusPreserves,
     RewindResumePreserves
  DEF Recovery
<1>5. CASE sdrad_exit \/ Violation \/ Alarm
  BY <1>5, sdrad_exitPreserves, ViolationPreserves, AlarmPreserves
<1>6. CASE Ended
  BY <1>6, EndedPreserves DEF Ended
<1> QED
  BY <1>1, <1>2, <1>3, <1>4, <1>5, <1>6 DEF Next

(* The signals module's invariant: the root's key is the root's alone, slot  *)
(* 0 is never a domain, and the chain is what parents and frames say it is.   *)
THEOREM Invariance == Spec => []IInv
<1>1. Init => IInv
  BY InitIInv
<1>2. IInv /\ [Next]_vars => IInv'
  BY NextIInv
<1> QED
  BY <1>1, <1>2, PTL DEF Spec

(* However often it has rewound before, the program never runs with SIGSEGV  *)
(* blocked, and is never killed by one: sdrad_signal_handler unblocks what   *)
(* it was called for, and nothing else in the handler's frame faults.        *)
THEOREM SegvAlwaysDeliverable == Spec => []SegvDeliverable
<1>1. IInv => SegvDeliverable
  BY DEF IInv
<1> QED
  BY <1>1, Invariance, PTL

(* After any series of enters, exits, faults and signals, application code   *)
(* allocates from the heap of the domain on top of the chain.                *)
THEOREM HeapAlwaysSelected == Spec => []HeapSelected
<1>1. IInv => HeapSelected
  BY DEF IInv, HeapInv, Running, Chain, Rewinding, RewindPc, HeapSelected, App, Last
<1> QED
  BY <1>1, Invariance, PTL

-----------------------------------------------------------------------------
(* The refinement *)

RunPc == {"app"} \cup InitPc \cup EnterPc \cup ExitPc \cup DestroyPc

(* The modes of RewindStack, by control. *)
LEMMA ModeFacts ==
  /\ ctl \in RunPc => Mode = "run"
  /\ ctl \in HandlerPc \cup RewindPc => Mode = "fault"
  /\ ctl \in Over => Mode = ctl
  /\ ctl' \in RunPc => Mode' = "run"
  /\ ctl' \in HandlerPc \cup RewindPc => Mode' = "fault"
  /\ ctl' \in Over => Mode' = ctl'
<1>1. /\ ctl \in RunPc => Mode = "run"
      /\ ctl \in HandlerPc \cup RewindPc => Mode = "fault"
      /\ ctl \in Over => Mode = ctl
  BY DEF Mode, RunPc, InitPc, EnterPc, ExitPc, DestroyPc, HandlerPc, RewindPc, Over
<1>2. /\ ctl' \in RunPc => Mode' = "run"
      /\ ctl' \in HandlerPc \cup RewindPc => Mode' = "fault"
      /\ ctl' \in Over => Mode' = ctl'
  BY DEF Mode, RunPc, InitPc, EnterPc, ExitPc, DestroyPc, HandlerPc, RewindPc, Over
<1> QED
  BY <1>1, <1>2

(* What the steps of the library before a signal, and of the recovery before *)
(* it resumes, do to the stack.                                              *)
LEMMA Stutter ==
  ASSUME UNCHANGED <<calls, sdi_buffer>>,
         \/ ctl \in RunPc /\ ctl' \in RunPc
         \/ ctl \in HandlerPc \cup RewindPc /\ ctl' \in HandlerPc \cup RewindPc
  PROVE  [Stack!Next]_(Stack!vars)
BY ModeFacts DEF Stack!vars

(* A signal before the recovery, or a fault of the application. *)
LEMMA FaultStep ==
  ASSUME UNCHANGED <<calls, sdi_buffer>>, ctl \in RunPc, ctl' \in HandlerPc
  PROVE  [Stack!Next]_(Stack!vars)
BY ModeFacts DEF Stack!Next, Stack!Fault

(* The frames above the cut are the ones at the level of the top. *)
LEMMA CutIsBelow ==
  ASSUME IInv, calls' = Front(calls), sdi_buffer' = FramesUpTo(Len(calls) - 1)
  PROVE  calls' = Stack!Below /\ sdi_buffer' = Stack!FramesBelow
<1>1. Len(calls) \in Nat
  BY ChainFacts DEF IInv
<1>2. \A d \in Slot : sdi_buffer[d] \in Nat /\ sdi_buffer[d] <= Len(calls)
  BY DEF IInv, Types, Frames, FrameOf
<1>3. FramesUpTo(Len(calls) - 1) = Stack!FramesBelow
  BY <1>1, <1>2 DEF FramesUpTo, Stack!FramesBelow
<1> QED
  BY <1>3 DEF Front, Stack!Below

(* The rewind completes, or is cut short after the parent was made active. *)
LEMMA UnwindStep ==
  ASSUME IInv, Rewinding, Cut, ctl' = "app" \/ ctl' = "handler"
  PROVE  [Stack!Next]_(Stack!vars)
<1>1. Mode = "fault" /\ Mode' \in {"run", "fault"}
  BY ModeFacts DEF Rewinding, RewindPc, RunPc, HandlerPc
<1>2. calls' = Stack!Below /\ sdi_buffer' = Stack!FramesBelow
  BY CutIsBelow DEF Cut
<1>3. Len(calls) > 1 /\ Len(calls) \in DOMAIN calls
  BY RewindingFacts, ChainFacts DEF IInv
<1>4. sdi_buffer[calls[Len(calls)]] = Len(calls) - 1
  BY <1>3 DEF IInv, Chain
<1> QED
  BY <1>1, <1>2, <1>3, <1>4 DEF Stack!Next, Stack!Unwind, Stack!Top

(* A fault that is taken for the root's is the root's. *)
LEMMA AbortStep ==
  ASSUME IInv, sdrad_abnormal_domain_exit, HasRootKey
  PROVE  [Stack!Next]_(Stack!vars)
<1>1. ctl = "longjmp" /\ ctl' = "aborted" /\ UNCHANGED <<calls, sdi_buffer>>
  BY DEF sdrad_abnormal_domain_exit, At, Goto, slotVars, runVars
<1>2. active_domain = ROOT_DOMAIN
  BY SlotFacts DEF HasRootKey, IInv, Types, RootKeyKept
<1>3. calls[Len(calls)] = active_domain
  BY <1>1 DEF IInv, Chain, Rewinding, RewindPc
<1>4. Len(calls) = 1
  BY <1>2, <1>3, ChainFacts DEF IInv, Chain
<1>5. calls = <<ROOT_DOMAIN>>
  <2>1. calls \in Seq(Slot) /\ <<ROOT_DOMAIN>> \in Seq(Slot) /\ Len(<<ROOT_DOMAIN>>) = 1
    BY SlotFacts DEF IInv, Types
  <2>2. calls[1] = ROOT_DOMAIN
    BY DEF IInv, Chain
  <2> QED
    BY <1>4, <2>1, <2>2, SeqEqual
<1>6. Mode = "fault" /\ Mode' = "aborted"
  BY <1>1, ModeFacts DEF HandlerPc, Over
<1> QED
  BY <1>1, <1>5, <1>6 DEF Stack!Next, Stack!Abort

(* sdrad_init saves a frame in the top domain. *)
LEMMA InitContextStep ==
  ASSUME IInv, InitContext
  PROVE  [Stack!Next]_(Stack!vars)
<1>1. /\ ctl = "context" /\ ctl' = "app" /\ UNCHANGED calls
      /\ sdi_buffer' = [sdi_buffer EXCEPT ![sdi] = Len(calls)]
  BY DEF InitContext, ReturnFrom, At, Goto, runVars
<1>2. \A i \in 1 .. Len(calls) : calls[i] # sdi
  BY <1>1, ChainFacts DEF IInv, Chain, InitPc
<1>3. Mode = "run" /\ Mode' = "run"
  BY <1>1, ModeFacts DEF RunPc, InitPc
<1>4. sdi \in Slot
  BY DEF IInv, Types
<1>5. Stack!Save(sdi)
  BY <1>1, <1>2, <1>3 DEF Stack!Save
<1> QED
  BY <1>4, <1>5 DEF Stack!Next

(* sdrad_enter calls the domain with the write to active_domain. *)
LEMMA EnterActiveStep ==
  ASSUME IInv, EnterActive
  PROVE  [Stack!Next]_(Stack!vars)
<1>1. /\ ctl = "e_active" /\ ctl' = "e_switch" /\ UNCHANGED sdi_buffer
      /\ calls' = Append(calls, sdi)
  BY DEF EnterActive, At, Goto, slotVars
<1>2. (\A i \in 1 .. Len(calls) : calls[i] # sdi) /\ sdi_buffer[sdi] = Len(calls)
  BY <1>1, ChainFacts DEF IInv, Frames
<1>3. Mode = "run" /\ Mode' = "run"
  BY <1>1, ModeFacts DEF RunPc, EnterPc
<1>4. sdi \in Slot
  BY DEF IInv, Types
<1>5. Stack!Call(sdi)
  BY <1>1, <1>2, <1>3 DEF Stack!Call
<1> QED
  BY <1>4, <1>5 DEF Stack!Next

(* sdrad_exit returns with the write to active_domain. *)
LEMMA ExitStep ==
  ASSUME IInv, sdrad_exit
  PROVE  [Stack!Next]_(Stack!vars)
<1>1. /\ ctl = "app" /\ ctl' = "x_heap" /\ Len(calls) > 1
      /\ calls' = Front(calls) /\ sdi_buffer' = FramesUpTo(Len(calls) - 1)
  BY DEF sdrad_exit, App, Goto
<1>2. calls' = Stack!Below /\ sdi_buffer' = Stack!FramesBelow
  BY <1>1, CutIsBelow
<1>3. Mode = "run" /\ Mode' = "run"
  BY <1>1, ModeFacts DEF RunPc, ExitPc
<1> QED
  BY <1>1, <1>2, <1>3 DEF Stack!Next, Stack!Return

(* A domain without a stack is entered: nothing can be said any more. *)
LEMMA EnterSwitchStep ==
  ASSUME EnterSwitch
  PROVE  [Stack!Next]_(Stack!vars)
<1>1. /\ ctl = "e_switch" /\ UNCHANGED <<calls, sdi_buffer>>
      /\ ctl' \in {"app", "corrupt"}
  BY DEF EnterSwitch, ReturnFrom, At, Goto, slotVars, runVars
<1>2. CASE ctl' = "app"
  BY <1>1, <1>2, Stutter DEF RunPc, EnterPc
<1>3. CASE ctl' = "corrupt"
  <2>1. Mode = "run" /\ Mode' = "corrupt"
    BY <1>1, <1>3, ModeFacts DEF RunPc, EnterPc, Over
  <2> QED
    BY <1>1, <2>1 DEF Stack!Next, Stack!Corrupt
<1> QED
  BY <1>1, <1>2, <1>3

(* A call works on a node without a slot: a fault, or nothing can be said    *)
(* any more.                                                                 *)
LEMMA CallWithoutSlotStep ==
  ASSUME IInv', NEW u \in Udi, CallWithoutSlot(u)
  PROVE  [Stack!Next]_(Stack!vars)
<1>1. ctl = "app" /\ ctl' \in {"handler", "corrupt"} /\ UNCHANGED <<calls, sdi_buffer>>
  <2>1. ctl' # "killed"
    BY DEF IInv, SegvDeliverable
  <2> QED
    BY <2>1 DEF CallWithoutSlot, RaiseSegv, App, Goto, slotVars, runVars
<1>2. CASE ctl' = "handler"
  BY <1>1, <1>2, FaultStep DEF RunPc, HandlerPc
<1>3. CASE ctl' = "corrupt"
  <2>1. Mode = "run" /\ Mode' = "corrupt"
    BY <1>1, <1>3, ModeFacts DEF RunPc, Over
  <2> QED
    BY <1>1, <2>1 DEF Stack!Next, Stack!Corrupt
<1> QED
  BY <1>1, <1>2, <1>3

(* The steps that may raise a signal; none kills the process. *)
LEMMA RaisingStep ==
  ASSUME IInv, IInv', Violation \/ DestroyUnlist \/ Alarm \/ RewindUnlist
  PROVE  [Stack!Next]_(Stack!vars)
<1>1. ctl' # "killed"
  BY DEF IInv, SegvDeliverable
<1>2. CASE Violation
  <2>1. ctl = "app" /\ ctl' \in {"handler", "longjmp"} /\ UNCHANGED <<calls, sdi_buffer>>
    BY <1>1, <1>2 DEF Violation, RaiseSegv, App, Goto, slotVars, runVars
  <2> QED
    BY <2>1, FaultStep DEF RunPc, HandlerPc
<1>3. CASE DestroyUnlist
  <2>1. (ctl' = "app" /\ mask' = mask) \/ RaiseSegv
    BY <1>3, UnlistFacts DEF DestroyUnlist
  <2>2. ctl = "d_unlist" /\ ctl' \in {"app", "handler"} /\ UNCHANGED <<calls, sdi_buffer>>
    BY <1>1, <1>3, <2>1 DEF DestroyUnlist, RaiseSegv, At, Goto, slotVars, runVars
  <2>3. CASE ctl' = "app"
    BY <2>2, <2>3, Stutter DEF RunPc, DestroyPc
  <2>4. CASE ctl' = "handler"
    BY <2>2, <2>4, FaultStep DEF RunPc, DestroyPc, HandlerPc
  <2> QED
    BY <2>2, <2>3, <2>4
<1>4. CASE Alarm
  <2>1. ctl \notin Over /\ ctl' = "handler" /\ Cut /\ ctl \in Control
    BY <1>4 DEF Alarm, Goto, IInv, Types
  <2>2. CASE Rewinding
    BY <2>1, <2>2, UnwindStep
  <2>3. CASE ~Rewinding
    <3>1. UNCHANGED <<calls, sdi_buffer>>
      BY <2>1, <2>3 DEF Cut
    <3>2. CASE ctl \in RunPc
      BY <2>1, <3>1, <3>2, FaultStep DEF HandlerPc
    <3>3. CASE ctl \notin RunPc
      BY <2>1, <3>1, <3>3, Stutter DEF Control, RunPc, HandlerPc
    <3> QED
      BY <3>2, <3>3
  <2> QED
    BY <2>2, <2>3
<1>5. CASE RewindUnlist
  <2>1. (ctl' = "r_status" /\ mask' = mask) \/ RaiseSegv
    BY <1>5, UnlistFacts DEF RewindUnlist
  <2>2. /\ ctl = "r_unlist" /\ ctl' \in {"r_status", "handler"}
        /\ IF ctl' = "r_status" THEN UNCHANGED <<calls, sdi_buffer>> ELSE Cut
    BY <1>1, <1>5, <2>1 DEF RewindUnlist, RaiseSegv, At, Goto
  <2>3. CASE ctl' = "r_status"
    BY <2>2, <2>3, Stutter DEF RewindPc
  <2>4. CASE ctl' = "handler"
    BY <2>2, <2>4, UnwindStep DEF Rewinding, RewindPc
  <2> QED
    BY <2>2, <2>3, <2>4
<1> QED
  BY <1>2, <1>3, <1>4, <1>5

(* The writes of the library that do not show. *)
LEMMA RunStep ==
  ASSUME \/ \E u \in Udi : sdrad_init(u) \/ sdrad_deinit(u) \/ sdrad_enter(u) \/ sdrad_destroy(u)
         \/ InitSlot \/ InitNode \/ InitKey \/ InitStack
         \/ ExitHeap \/ DestroyCache \/ DestroyKey
  PROVE  [Stack!Next]_(Stack!vars)
<1>1. CASE \E u \in Udi : sdrad_init(u) \/ sdrad_deinit(u) \/ sdrad_enter(u) \/ sdrad_destroy(u)
  <2>1. UNCHANGED <<calls, sdi_buffer>> /\ ctl \in RunPc /\ ctl' \in RunPc
    BY <1>1
    DEF sdrad_init, sdrad_deinit, sdrad_enter, sdrad_destroy, App, Goto, slotVars, runVars, RunPc,
        InitPc, EnterPc, DestroyPc
  <2> QED
    BY <2>1, Stutter
<1>2. CASE InitSlot \/ InitNode \/ InitKey \/ InitStack
  <2>1. UNCHANGED <<calls, sdi_buffer>> /\ ctl \in RunPc /\ ctl' \in RunPc
    BY <1>2 DEF InitSlot, InitNode, InitKey, InitStack, At, Goto, slotVars, runVars, RunPc, InitPc
  <2> QED
    BY <2>1, Stutter
<1>3. CASE ExitHeap \/ DestroyCache \/ DestroyKey
  <2>1. UNCHANGED <<calls, sdi_buffer>> /\ ctl \in RunPc /\ ctl' \in RunPc
    BY <1>3
    DEF ExitHeap, DestroyCache, DestroyKey, ReturnFrom, At, Goto, slotVars, runVars, RunPc, ExitPc,
        DestroyPc
  <2> QED
    BY <2>1, Stutter
<1> QED
  BY <1>1, <1>2, <1>3

(* The writes of the recovery show when it ends. *)
LEMMA RecoveryStep ==
  ASSUME IInv, IInv', Recovery
  PROVE  [Stack!Next]_(Stack!vars)
<1>1. CASE sdrad_signal_handler \/ RewindStart \/ RewindCache \/ RewindStatus
  <2>1. /\ UNCHANGED <<calls, sdi_buffer>>
        /\ ctl \in HandlerPc \cup RewindPc /\ ctl' \in HandlerPc \cup RewindPc
    BY <1>1
    DEF sdrad_signal_handler, RewindStart, RewindCache, RewindStatus, At, Goto, slotVars, runVars,
        HandlerPc, RewindPc
  <2> QED
    BY <2>1, Stutter
<1>2. CASE sdrad_abnormal_domain_exit
  <2>1. CASE HasRootKey
    BY <1>2, <2>1, AbortStep
  <2>2. CASE ~HasRootKey
    <3>1. UNCHANGED <<calls, sdi_buffer>> /\ ctl = "longjmp" /\ ctl' = "rewind"
      BY <1>2, <2>2 DEF sdrad_abnormal_domain_exit, At, Goto, slotVars, runVars
    <3> QED
      BY <3>1, Stutter DEF HandlerPc, RewindPc
  <2> QED
    BY <2>1, <2>2
<1>3. CASE RewindUnlist
  BY <1>3, RaisingStep
<1>4. CASE RewindResume
  <2>1. ctl = "r_resume" /\ ctl' = "app" /\ Cut
    BY <1>4 DEF RewindResume, ReturnFrom, At, Goto
  <2> QED
    BY <2>1, UnwindStep DEF Rewinding, RewindPc
<1> QED
  BY <1>1, <1>2, <1>3, <1>4 DEF Recovery

(* Every step is one of the stack's, or does not show. *)
LEMMA StackStep ==
  ASSUME IInv, IInv', [Next]_vars
  PROVE  [Stack!Next]_(Stack!vars)
<1>1. CASE UNCHANGED vars
  <2>1. UNCHANGED <<calls, sdi_buffer, ctl>>
    BY <1>1 DEF vars, slotVars, runVars
  <2>2. Mode' = Mode
    BY <2>1 DEF Mode
  <2> QED
    BY <2>1, <2>2 DEF Stack!vars
<1>2. CASE LibraryStep
  BY <1>2, RunStep, InitContextStep, EnterActiveStep, EnterSwitchStep, RaisingStep
  DEF LibraryStep
<1>3. CASE Recovery
  BY <1>3, RecoveryStep
<1>4. CASE Violation \/ Alarm
  BY <1>4, RaisingStep
<1>5. CASE sdrad_exit
  BY <1>5, ExitStep
<1>6. CASE \E u \in Udi : sdrad_init(u) \/ sdrad_deinit(u) \/ sdrad_enter(u) \/ sdrad_destroy(u)
  BY <1>6, RunStep
<1>7. CASE \E u \in Udi : CallWithoutSlot(u)
  BY <1>7, CallWithoutSlotStep
<1> QED
  BY <1>1, <1>2, <1>3, <1>4, <1>5, <1>6, <1>7 DEF Next, Ended

(* The safety half of RewindStackSpec: whichever writes of the library the   *)
(* signals fall between, the domains that run are a stack, a fault takes the *)
(* top one off it, and only a fault of the root ends the process.            *)
THEOREM ImplementsRewindStack == Spec => Stack!Init /\ [][Stack!Next]_(Stack!vars)
<1>1. Init => Stack!Init
  BY ModeFacts DEF Init, Stack!Init, RunPc
<1>2. IInv /\ IInv' /\ [Next]_vars => [Stack!Next]_(Stack!vars)
  BY StackStep
<1> QED
  BY <1>1, <1>2, Invariance, PTL DEF Spec
=============================================================================
