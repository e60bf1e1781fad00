-------------------------- MODULE SdradShared_proofs --------------------------
(***************************************************************************)
(* Theorems about SdradShared, for any number of threads, domains, slots   *)
(* and calls.                                                              *)
(***************************************************************************)
EXTENDS SdradShared, ListLemmas

-----------------------------------------------------------------------------
(* The inductive invariant of any application *)

ListsTyped ==
  /\ DOMAIN udi_control \subseteq Udi
  /\ \A u \in DOMAIN udi_control : udi_control[u] \in Slot
  /\ status \subseteq Slot
  /\ sgm_sdi_to_tdi \in [Slot -> Thread \cup {NoThread}]
  /\ \A u \in DOMAIN udi_control : sgm_sdi_to_tdi[udi_control[u]] = Maker
  /\ DOMAIN kind = Udi

HeapsTyped ==
  /\ mapped \in Nat
  /\ cache \in Seq(0 .. mapped)
  /\ sdi_tlsf \in [Thread -> [Slot -> 0 .. mapped]]
  /\ sdi_init_heap_flag \in [Thread -> [Slot -> BOOLEAN]]

AllPc == {"app"} \cup LifePc \cup CallPc

LocalsTyped ==
  /\ pc \in [Thread -> AllPc]
  /\ name \in [Thread -> Names]
  /\ sdi \in [Thread -> Slot]
  /\ DOMAIN udi = Thread /\ DOMAIN ptr = Thread

Holds(t) == IF name[t] = "memalign" THEN malloc_mutex = t ELSE sgm_lock = t

LocksHeld ==
  /\ sgm_lock \in Thread \cup {NoThread} /\ malloc_mutex \in Thread \cup {NoThread}
  /\ sgm_count \in Nat /\ (sgm_count = 0 <=> sgm_lock = NoThread)
  /\ \A t \in Thread : pc[t] \in Locked => Holds(t)

(* One thread makes and ends domains. *)
MakerAlone == \A t \in Thread : pc[t] \in LifePc => t = Maker

(* A domain is called on while it is listed, in the way the application is   *)
(* known to call, and not while it is made or ended.                         *)
CallsListed ==
  \A t \in Thread : pc[t] \in CallPc =>
    /\ udi[t] \in DOMAIN udi_control
    /\ [name |-> name[t], kind |-> kind[udi[t]]] \in Calls
    /\ \A v \in Thread : pc[v] \in LifePc => udi[v] # udi[t]

(* The call has looked up its slot. *)
Found(t) == pc[t] \in Locked \ {"find"} \/ (pc[t] = "lock" /\ name[t] # "free")

CallsFound == \A t \in Thread : Found(t) => sdi[t] = udi_control[udi[t]]

(* What is being made is not listed yet; what is filled or ended is. *)
LifeListed ==
  \A t \in Thread : pc[t] \in LifePc =>
    /\ udi[t] \in Udi
    /\ pc[t] = "take" => udi[t] \notin DOMAIN udi_control
    /\ pc[t] \in {"fill", "unlist"} => udi[t] \in DOMAIN udi_control

SInv ==
  /\ ListsTyped
  /\ HeapsTyped
  /\ LocalsTyped
  /\ LocksHeld
  /\ MakerAlone
  /\ CallsListed
  /\ CallsFound
  /\ LifeListed

-----------------------------------------------------------------------------
(* The program counter: the three kinds of places are apart. *)
LEMMA Places ==
  /\ "app" \notin LifePc /\ "app" \notin CallPc /\ "app" \notin Locked
  /\ LifePc \cap CallPc = {} /\ Locked \subseteq CallPc
  /\ "search" \notin Locked /\ "lock" \notin Locked
BY DEF LifePc, CallPc, Locked

(* The slots of the initial locals. *)
LEMMA FirstSlot == 2 \in Slot
BY SharedAssumption DEF Slot

(* A thread that has no new lock leaves the locks as they are. *)
LEMMA LocksKept ==
  ASSUME LocalsTyped, LocksHeld, NEW t \in Thread, NEW there, Goto(t, there),
         UNCHANGED lockVars, \A v \in Thread \ {t} : name'[v] = name[v],
         there \in Locked => pc[t] \in Locked /\ name'[t] = name[t]
  PROVE  LocksHeld'
<1>1. ASSUME NEW v \in Thread, pc'[v] \in Locked PROVE Holds(v)'
  <2>1. CASE v = t
    <3>1. pc'[v] = there
      BY <2>1 DEF Goto, LocalsTyped
    <3>2. pc[v] \in Locked /\ name'[v] = name[v]
      BY <1>1, <2>1, <3>1
    <3> QED
      BY <3>2 DEF LocksHeld, Holds, lockVars
  <2>2. CASE v # t
    <3>1. pc'[v] = pc[v] /\ name'[v] = name[v]
      BY <2>2 DEF Goto, LocalsTyped
    <3> QED
      BY <1>1, <3>1 DEF LocksHeld, Holds, lockVars
  <2> QED
    BY <2>1, <2>2
<1> QED
  BY <1>1 DEF LocksHeld, lockVars

(* A step inside a call. *)
LEMMA InsideCall ==
  ASSUME SInv, NEW t \in Thread, NEW there \in CallPc, pc[t] \in CallPc, Goto(t, there),
         UNCHANGED <<udi_control, kind, udi, name, ptr>>
  PROVE  /\ pc' \in [Thread -> AllPc]
         /\ MakerAlone' /\ CallsListed' /\ LifeListed'
<1>1. pc' = [pc EXCEPT ![t] = there] /\ pc \in [Thread -> AllPc]
  BY DEF Goto, SInv, LocalsTyped
<1>2. pc' \in [Thread -> AllPc]
  BY <1>1 DEF AllPc
<1>3. \A v \in Thread : (pc'[v] \in LifePc <=> pc[v] \in LifePc)
                     /\ (pc'[v] \in CallPc <=> pc[v] \in CallPc)
                     /\ (pc[v] \in LifePc => pc'[v] = pc[v])
  BY <1>1, Places
<1>4. MakerAlone'
  BY <1>3 DEF SInv, MakerAlone
<1>5. CallsListed'
  BY <1>3 DEF SInv, CallsListed
<1>6. LifeListed'
  BY <1>3 DEF SInv, LifeListed
<1> QED
  BY <1>2, <1>4, <1>5, <1>6

(* A thread that returns to the application. *)
LEMMA LeaveKeeps ==
  ASSUME SInv, NEW t \in Thread, Leave(t), UNCHANGED <<udi_control, kind>>
  PROVE  LocalsTyped' /\ MakerAlone' /\ CallsListed' /\ CallsFound' /\ LifeListed'
<1>1. /\ pc' = [pc EXCEPT ![t] = "app"] /\ pc \in [Thread -> AllPc]
      /\ name' = [name EXCEPT ![t] = "malloc"] /\ name \in [Thread -> Names]
      /\ udi' = [udi EXCEPT ![t] = AnyUdi] /\ DOMAIN udi = Thread
      /\ sdi' = [sdi EXCEPT ![t] = 2] /\ sdi \in [Thread -> Slot]
      /\ ptr' = [ptr EXCEPT ![t] = NULL] /\ DOMAIN ptr = Thread
  BY DEF Leave, Goto, SInv, LocalsTyped
<1>2. LocalsTyped'
  BY <1>1, FirstSlot DEF LocalsTyped, AllPc, Names
<1>3. /\ pc'[t] = "app"
      /\ \A v \in Thread \ {t} : pc'[v] = pc[v] /\ name'[v] = name[v] /\ udi'[v] = udi[v]
  BY <1>1
<1>4. MakerAlone'
  BY <1>3, Places DEF SInv, MakerAlone
<1>5. CallsListed'
  BY <1>3, Places DEF SInv, CallsListed
<1>6. LifeListed'
  BY <1>3, Places DEF SInv, LifeListed
<1>7. CallsFound'
  BY <1>1, <1>3, Places DEF SInv, CallsFound, Found
<1> QED
  BY <1>2, <1>4, <1>5, <1>6, <1>7

(* A cached heap, and the rest of the cache, after more heaps were mapped.   *)
LEMMA CacheGrows ==
  ASSUME HeapsTyped, NEW s \in Seq(0 .. mapped), mapped' \in {mapped, mapped + 1}
  PROVE  s \in Seq(0 .. mapped') /\ mapped' \in Nat /\ 0 .. mapped \subseteq 0 .. mapped'
<1>1. mapped \in Nat /\ mapped' \in Nat /\ 0 .. mapped \subseteq 0 .. mapped'
  BY DEF HeapsTyped
<1>2. Len(s) \in Nat /\ s \in [1 .. Len(s) -> 0 .. mapped]
  BY LenProperties
<1>3. s \in [1 .. Len(s) -> 0 .. mapped']
  BY <1>1, <1>2
<1> QED
  BY <1>1, <1>2, <1>3, SeqDef

(* What SetHeap and MapHeap write. *)
LEMMA SetHeapTyped ==
  ASSUME HeapsTyped, NEW t \in Thread, NEW s \in Slot, NEW heap \in 0 .. mapped',
         NEW flag \in BOOLEAN, mapped' \in {mapped, mapped + 1}, SetHeap(t, s, heap, flag)
  PROVE  /\ sdi_tlsf' \in [Thread -> [Slot -> 0 .. mapped']]
         /\ sdi_init_heap_flag' \in [Thread -> [Slot -> BOOLEAN]]
<1>1. 0 .. mapped \subseteq 0 .. mapped'
  BY DEF HeapsTyped
<1>2. sdi_tlsf \in [Thread -> [Slot -> 0 .. mapped']]
  BY <1>1 DEF HeapsTyped
<1> QED
  BY <1>2 DEF SetHeap, HeapsTyped

(* So does a new heap. *)
LEMMA MapHeapTyped ==
  ASSUME HeapsTyped, NEW t \in Thread, NEW s \in Slot, MapHeap(t, s), UNCHANGED cache
  PROVE  HeapsTyped'
<1>1. mapped' = mapped + 1 /\ mapped + 1 \in 0 .. mapped'
  BY DEF MapHeap, HeapsTyped
<1>2. cache' \in Seq(0 .. mapped') /\ mapped' \in Nat
  BY <1>1, CacheGrows DEF HeapsTyped
<1>3. SetHeap(t, s, mapped + 1, TRUE)
  BY DEF MapHeap
<1> QED
  BY <1>1, <1>2, <1>3, SetHeapTyped DEF HeapsTyped

(* And no heap at all. *)
LEMMA KeepHeapsTyped ==
  ASSUME HeapsTyped, KeepHeaps, UNCHANGED cache
  PROVE  HeapsTyped'
BY DEF HeapsTyped, KeepHeaps, infoVars

(* sdrad_data_domain_init and sdrad_execution_domain_init keep the types. *)
LEMMA FillTyped ==
  ASSUME HeapsTyped, NEW t \in Thread, NEW s \in Slot,
         FillData(t, s) \/ FillExecution(t, s)
  PROVE  HeapsTyped'
<1>1. CASE cache # <<>> /\ \E flag \in BOOLEAN :
             SetHeap(t, s, Head(cache), flag) /\ cache' = Tail(cache) /\ UNCHANGED mapped
  <2>1. Head(cache) \in 0 .. mapped /\ Tail(cache) \in Seq(0 .. mapped)
    BY <1>1, HeadProperties DEF HeapsTyped
  <2> QED
    BY <1>1, <2>1, SetHeapTyped DEF HeapsTyped
<1>2. CASE cache # <<>> /\ SetHeap(t, s, sdi_tlsf[t][s], FALSE) /\ cache' = Tail(cache)
             /\ UNCHANGED mapped
  <2>1. sdi_tlsf[t][s] \in 0 .. mapped /\ Tail(cache) \in Seq(0 .. mapped)
    BY <1>2, HeadProperties DEF HeapsTyped
  <2> QED
    BY <1>2, <2>1, SetHeapTyped DEF HeapsTyped
<1>3. CASE (KeepHeaps \/ MapHeap(t, s)) /\ UNCHANGED cache
  BY <1>3, KeepHeapsTyped, MapHeapTyped
<1>4. sdi_init_heap_flag[t][s] \in BOOLEAN
  BY DEF HeapsTyped
<1> QED
  BY <1>1, <1>2, <1>3, <1>4 DEF FillData, FillExecution

-----------------------------------------------------------------------------
(* The steps, one by one *)

(* At the start nobody is in the library. *)
LEMMA InitSInv == Init => SInv
<1> SUFFICES ASSUME Init PROVE SInv
  OBVIOUS
<1>1. ListsTyped
  BY DEF Init, ListsTyped
<1>2. HeapsTyped
  <2>1. <<>> \in Seq(0 .. 0)
    BY EmptySeq
  <2> QED
    BY <2>1 DEF Init, HeapsTyped, NULL
<1>3. LocalsTyped
  BY FirstSlot DEF Init, LocalsTyped, AllPc, Names
<1>4. LocksHeld
  BY Places DEF Init, LocksHeld
<1>5. MakerAlone /\ CallsListed /\ CallsFound /\ LifeListed
  BY Places DEF Init, MakerAlone, CallsListed, CallsFound, Found, LifeListed
<1> QED
  BY <1>1, <1>2, <1>3, <1>4, <1>5 DEF SInv

(* sdrad_init begins: the udi is neither listed nor in anybody's hands. *)
LEMMA InitStep ==
  ASSUME SInv, NEW t \in Thread, NEW u \in Udi, NEW k \in Kinds, sdrad_init(t, u, k)
  PROVE  SInv'
<1>1. /\ pc' = [pc EXCEPT ![t] = "take"] /\ pc \in [Thread -> AllPc] /\ pc[t] = "app"
      /\ udi' = [udi EXCEPT ![t] = u] /\ DOMAIN udi = Thread
      /\ kind' = [kind EXCEPT ![u] = k] /\ DOMAIN kind = Udi
      /\ name' = name /\ udi_control' = udi_control /\ t = Maker
      /\ u \notin DOMAIN udi_control
  BY DEF sdrad_init, Goto, At, SInv, LocalsTyped, ListsTyped
<1>2. ListsTyped' /\ HeapsTyped'
  BY <1>1 DEF SInv, ListsTyped, HeapsTyped, sdrad_init, infoVars
<1>3. LocalsTyped'
  BY <1>1 DEF SInv, LocalsTyped, sdrad_init, AllPc, LifePc
<1>4. LocksHeld'
  BY LocksKept DEF SInv, sdrad_init, Locked
<1>5. /\ pc'[t] = "take" /\ udi'[t] = u
      /\ \A v \in Thread \ {t} : pc'[v] = pc[v] /\ udi'[v] = udi[v]
      /\ \A v \in DOMAIN udi_control : kind'[v] = kind[v]
      /\ "take" \in LifePc /\ "take" \notin CallPc
  BY <1>1 DEF SInv, ListsTyped, LifePc, CallPc, Locked
<1>6. MakerAlone'
  BY <1>1, <1>5 DEF SInv, MakerAlone
<1>7. CallsListed'
  <2> SUFFICES ASSUME NEW v \in Thread, pc'[v] \in CallPc
               PROVE  /\ udi'[v] \in DOMAIN udi_control
                      /\ [name |-> name[v], kind |-> kind'[udi'[v]]] \in Calls
                      /\ \A w \in Thread : pc'[w] \in LifePc => udi'[w] # udi'[v]
    BY <1>1 DEF CallsListed
  <2>1. v # t /\ pc[v] \in CallPc /\ udi'[v] = udi[v]
    BY <1>5
  <2>2. /\ udi[v] \in DOMAIN udi_control
        /\ [name |-> name[v], kind |-> kind[udi[v]]] \in Calls
        /\ \A w \in Thread : pc[w] \in LifePc => udi[w] # udi[v]
    BY <2>1 DEF SInv, CallsListed
  <2>3. kind'[udi'[v]] = kind[udi[v]]
    BY <1>5, <2>1, <2>2
  <2> QED
    BY <1>1, <1>5, <2>1, <2>2, <2>3
<1>8. LifeListed'
  BY <1>1, <1>5 DEF SInv, LifeListed
<1>9. CallsFound'
  BY <1>1, <1>5 DEF SInv, CallsFound, Found, sdrad_init, Locked
<1> QED
  BY <1>2, <1>3, <1>4, <1>6, <1>7, <1>8, <1>9 DEF SInv

(* The first free slot goes on the list, under the maker's name. *)
LEMMA TakeSlotStep ==
  ASSUME SInv, NEW t \in Thread, TakeSlot(t)
  PROVE  SInv'
<1>1. PICK new \in sdrad_find_free_domain :
        /\ status' = status \cup {new}
        /\ sgm_sdi_to_tdi' = [sgm_sdi_to_tdi EXCEPT ![new] = t]
        /\ udi_control' = [v \in DOMAIN udi_control \cup {udi[t]} |->
                             IF v = udi[t] THEN new ELSE udi_control[v]]
        /\ sdi' = [sdi EXCEPT ![t] = new]
  BY DEF TakeSlot
<1>2. new \in Slot
  BY DEF sdrad_find_free_domain
<1>3. /\ pc' = [pc EXCEPT ![t] = "fill"] /\ pc \in [Thread -> AllPc] /\ pc[t] = "take"
      /\ name' = name /\ udi' = udi /\ ptr' = ptr /\ kind' = kind
  BY DEF TakeSlot, Goto, At, SInv, LocalsTyped
<1>4. udi[t] \in Udi /\ udi[t] \notin DOMAIN udi_control
  BY <1>3 DEF SInv, LifeListed, LifePc
<1>5. ListsTyped'
  <2>1. t = Maker
    BY <1>3 DEF SInv, MakerAlone, LifePc
  <2> QED
    BY <1>1, <1>2, <1>3, <1>4, <2>1 DEF SInv, ListsTyped
<1>6. HeapsTyped'
  BY DEF SInv, HeapsTyped, TakeSlot, infoVars
<1>7. LocalsTyped'
  BY <1>1, <1>2, <1>3 DEF SInv, LocalsTyped, AllPc, LifePc
<1>8. LocksHeld'
  BY <1>3, LocksKept DEF SInv, TakeSlot, Locked
<1>9. /\ pc'[t] = "fill"
      /\ \A v \in Thread \ {t} : pc'[v] = pc[v]
      /\ "fill" \in LifePc /\ "fill" \notin CallPc /\ "take" \in LifePc
      /\ \A u \in DOMAIN udi_control : u \in DOMAIN udi_control'
      /\ udi[t] \in DOMAIN udi_control'
  BY <1>1, <1>3 DEF LifePc, CallPc, Locked
<1>10. MakerAlone'
  BY <1>3, <1>9 DEF SInv, MakerAlone
<1>11. CallsListed'
  BY <1>3, <1>9 DEF SInv, CallsListed
<1>12. LifeListed'
  BY <1>3, <1>4, <1>9, <1>10 DEF SInv, LifeListed, MakerAlone
<1>13. CallsFound'
  <2> SUFFICES ASSUME NEW v \in Thread, Found(v)'
               PROVE  sdi'[v] = udi_control'[udi'[v]]
    BY DEF CallsFound
  <2>1. v # t /\ Found(v) /\ pc[v] \in CallPc
    BY <1>3, <1>9 DEF Found, Locked, CallPc
  <2>2. udi[v] \in DOMAIN udi_control /\ udi[v] # udi[t] /\ sdi[v] = udi_control[udi[v]]
    BY <1>3, <1>9, <2>1 DEF SInv, CallsListed, CallsFound
  <2> QED
    BY <1>1, <1>3, <2>1, <2>2 DEF SInv, LocalsTyped
<1> QED
  BY <1>5, <1>6, <1>7, <1>8, <1>10, <1>11, <1>12, <1>13 DEF SInv

(* The domain gets what memory it has, and sdrad_init returns. *)
LEMMA FillDomainStep ==
  ASSUME SInv, NEW t \in Thread, FillDomain(t)
  PROVE  SInv'
<1>1. LocalsTyped' /\ MakerAlone' /\ CallsListed' /\ CallsFound' /\ LifeListed'
  BY LeaveKeeps DEF FillDomain
<1>2. ListsTyped'
  BY DEF SInv, ListsTyped, FillDomain
<1>3. HeapsTyped'
  BY FillTyped DEF SInv, LocalsTyped, FillDomain
<1>4. LocksHeld'
  BY LocksKept, Places DEF SInv, LocalsTyped, FillDomain, Leave
<1> QED
  BY <1>1, <1>2, <1>3, <1>4 DEF SInv

(* The entry goes to the cache; nobody is calling on the domain. *)
LEMMA DestroyStep ==
  ASSUME SInv, NEW t \in Thread, NEW u \in Udi, NEW how \in Ends, sdrad_destroy(t, u, how)
  PROVE  SInv'
<1>1. /\ pc' = [pc EXCEPT ![t] = "unlist"] /\ pc \in [Thread -> AllPc] /\ pc[t] = "app"
      /\ udi' = [udi EXCEPT ![t] = u] /\ DOMAIN udi = Thread
      /\ sdi' = [sdi EXCEPT ![t] = udi_control[u]] /\ sdi \in [Thread -> Slot]
      /\ name' = name /\ udi_control' = udi_control /\ kind' = kind /\ t = Maker
      /\ u \in DOMAIN udi_control /\ udi_control[u] \in Slot /\ Idle(u)
  BY DEF sdrad_destroy, Goto, At, SInv, LocalsTyped, ListsTyped
<1>2. ListsTyped'
  BY <1>1 DEF SInv, ListsTyped, sdrad_destroy
<1>3. HeapsTyped'
  <2> DEFINE entry == IF sdi_init_heap_flag[t][udi_control[u]]
                        THEN sdi_tlsf[t][udi_control[u]] ELSE NULL
  <2>1. entry \in 0 .. mapped /\ cache \in Seq(0 .. mapped)
    BY <1>1 DEF SInv, HeapsTyped, NULL
  <2>2. cache' = <<entry>> \o cache
    BY DEF sdrad_destroy
  <2> HIDE DEF entry
  <2>3. cache' \in Seq(0 .. mapped)
    BY <2>1, <2>2, PushProperties
  <2> QED
    BY <2>3 DEF SInv, HeapsTyped, sdrad_destroy, infoVars
<1>4. LocalsTyped'
  BY <1>1 DEF SInv, LocalsTyped, sdrad_destroy, AllPc, LifePc
<1>5. LocksHeld'
  BY <1>1, LocksKept DEF SInv, sdrad_destroy, Locked
<1>6. /\ pc'[t] = "unlist" /\ udi'[t] = u
      /\ \A v \in Thread \ {t} : pc'[v] = pc[v] /\ udi'[v] = udi[v]
      /\ "unlist" \in LifePc /\ "unlist" \notin CallPc
  BY <1>1 DEF LifePc, CallPc, Locked
<1>7. MakerAlone'
  BY <1>1, <1>6 DEF SInv, MakerAlone
<1>8. CallsListed'
  BY <1>1, <1>6 DEF SInv, CallsListed, Idle
<1>9. LifeListed'
  BY <1>1, <1>6 DEF SInv, LifeListed
<1>10. CallsFound'
  BY <1>1, <1>6 DEF SInv, CallsFound, Found, Locked
<1> QED
  BY <1>2, <1>3, <1>4, <1>5, <1>7, <1>8, <1>9, <1>10 DEF SInv

(* The domain leaves the list, and sdrad_destroy returns. *)
LEMMA UnlistStep ==
  ASSUME SInv, NEW t \in Thread, Unlist(t)
  PROVE  SInv'
<1>1. /\ pc' = [pc EXCEPT ![t] = "app"] /\ pc \in [Thread -> AllPc] /\ pc[t] = "unlist"
      /\ udi' = [udi EXCEPT ![t] = AnyUdi] /\ DOMAIN udi = Thread
      /\ name' = [name EXCEPT ![t] = "malloc"] /\ name \in [Thread -> Names]
      /\ sdi' = [sdi EXCEPT ![t] = 2] /\ sdi \in [Thread -> Slot]
      /\ ptr' = [ptr EXCEPT ![t] = NULL] /\ DOMAIN ptr = Thread
      /\ kind' = [kind EXCEPT ![udi[t]] = "DATA"] /\ DOMAIN kind = Udi
      /\ udi_control' = [v \in DOMAIN udi_control \ {udi[t]} |-> udi_control[v]]
  BY DEF Unlist, Leave, Goto, At, SInv, LocalsTyped, ListsTyped
<1>2. ListsTyped'
  BY <1>1 DEF SInv, ListsTyped, Unlist
<1>3. HeapsTyped'
  BY DEF SInv, HeapsTyped, Unlist, infoVars
<1>4. LocalsTyped'
  BY <1>1, FirstSlot DEF LocalsTyped, AllPc, Names
<1>5. LocksHeld'
  BY <1>1, LocksKept, Places DEF SInv, LocalsTyped, Unlist, Leave
<1>6. /\ pc'[t] = "app" /\ t = Maker
      /\ \A v \in Thread \ {t} : pc'[v] = pc[v] /\ udi'[v] = udi[v] /\ name'[v] = name[v]
      /\ "unlist" \in LifePc /\ pc[t] \in LifePc
      /\ \A v \in DOMAIN udi_control \ {udi[t]} :
           v \in DOMAIN udi_control' /\ v \in Udi /\ kind'[v] = kind[v]
  BY <1>1 DEF LifePc, SInv, MakerAlone, ListsTyped
<1>7. MakerAlone'
  BY <1>6, Places DEF SInv, MakerAlone
<1>8. CallsListed'
  <2> SUFFICES ASSUME NEW v \in Thread, pc'[v] \in CallPc
               PROVE  /\ udi'[v] \in DOMAIN udi_control'
                      /\ [name |-> name'[v], kind |-> kind'[udi'[v]]] \in Calls
                      /\ \A w \in Thread : pc'[w] \in LifePc => udi'[w] # udi'[v]
    BY DEF CallsListed
  <2>1. v # t /\ pc[v] \in CallPc /\ udi'[v] = udi[v] /\ name'[v] = name[v]
    BY <1>6, Places
  <2>2. /\ udi[v] \in DOMAIN udi_control
        /\ [name |-> name[v], kind |-> kind[udi[v]]] \in Calls
        /\ \A w \in Thread : pc[w] \in LifePc => udi[w] # udi[v]
    BY <2>1 DEF SInv, CallsListed
  <2>3. udi[v] # udi[t]
    BY <1>6, <2>2
  <2>4. udi'[v] \in DOMAIN udi_control' /\ kind'[udi'[v]] = kind[udi[v]]
    BY <1>6, <2>1, <2>2, <2>3
  <2>5. \A w \in Thread : pc'[w] \in LifePc => udi'[w] # udi'[v]
    BY <1>6, <2>1, <2>2, Places
  <2> QED
    BY <2>1, <2>2, <2>4, <2>5
<1>9. LifeListed'
  BY <1>6, <1>7, Places DEF LifeListed, MakerAlone
<1>10. CallsFound'
  <2> SUFFICES ASSUME NEW v \in Thread, Found(v)'
               PROVE  sdi'[v] = udi_control'[udi'[v]]
    BY DEF CallsFound
  <2>1. v # t /\ Found(v) /\ pc[v] \in CallPc
    BY <1>6 DEF Found, Locked, CallPc
  <2>2. udi[v] \in DOMAIN udi_control /\ udi[v] # udi[t] /\ sdi[v] = udi_control[udi[v]]
    BY <1>6, <2>1 DEF SInv, CallsListed, CallsFound
  <2> QED
    BY <1>1, <1>6, <2>1, <2>2
<1> QED
  BY <1>2, <1>3, <1>4, <1>5, <1>7, <1>8, <1>9, <1>10 DEF SInv

(* A call begins on a domain that is offered. *)
LEMMA BeginStep ==
  ASSUME SInv, NEW t \in Thread, NEW n \in Names, NEW u \in Udi, Begin(t, n, u)
  PROVE  SInv'
<1> DEFINE there == IF n = "free" THEN "lock" ELSE "search"
<1>1. /\ pc' = [pc EXCEPT ![t] = there] /\ pc \in [Thread -> AllPc] /\ pc[t] = "app"
      /\ udi' = [udi EXCEPT ![t] = u] /\ DOMAIN udi = Thread
      /\ name' = [name EXCEPT ![t] = n] /\ name \in [Thread -> Names]
      /\ sdi' = sdi /\ sdi \in [Thread -> Slot]
      /\ DOMAIN ptr' = Thread
      /\ UNCHANGED domainVars
      /\ there \in CallPc /\ there \notin Locked /\ there \notin LifePc
  BY DEF Begin, Goto, At, SInv, LocalsTyped, CallPc, Locked, LifePc
<1>2. u \in DOMAIN udi_control /\ [name |-> n, kind |-> kind[u]] \in Calls
      /\ \A v \in Thread : pc[v] \in LifePc => udi[v] # u
  BY DEF Begin, Offered
<1> HIDE DEF there
<1>3. ListsTyped' /\ HeapsTyped'
  BY <1>1 DEF SInv, ListsTyped, HeapsTyped, Begin, domainVars, infoVars
<1>4. LocalsTyped'
  BY <1>1 DEF LocalsTyped, AllPc
<1>5. LocksHeld'
  <2>1. Goto(t, there) /\ \A v \in Thread \ {t} : name'[v] = name[v]
    BY <1>1 DEF Goto
  <2> QED
    BY <1>1, <2>1, LocksKept DEF SInv, Begin
<1>6. /\ pc'[t] = there /\ udi'[t] = u /\ name'[t] = n
      /\ \A v \in Thread \ {t} : pc'[v] = pc[v] /\ udi'[v] = udi[v] /\ name'[v] = name[v]
      /\ udi_control' = udi_control /\ kind' = kind
  BY <1>1 DEF domainVars
<1>7. \A v \in Thread : pc'[v] \in LifePc => v # t /\ pc[v] = pc'[v] /\ udi'[v] = udi[v]
  BY <1>1, <1>6
<1>8. MakerAlone'
  BY <1>7 DEF SInv, MakerAlone
<1>9. CallsListed'
  BY <1>1, <1>2, <1>6, <1>7 DEF SInv, CallsListed
<1>10. LifeListed'
  BY <1>6, <1>7 DEF SInv, LifeListed
<1>11. CallsFound'
  <2>1. ~Found(t)'
    BY <1>1, <1>6 DEF Found, there
  <2> QED
    BY <1>1, <1>6, <2>1 DEF SInv, CallsFound, Found
<1> QED
  BY <1>3, <1>4, <1>5, <1>8, <1>9, <1>10, <1>11 DEF SInv

(* The slot that is looked up is the domain's. *)
LEMMA SearchStep ==
  ASSUME SInv, NEW t \in Thread, Search(t)
  PROVE  SInv'
<1> DEFINE there == IF pc[t] = "search" THEN "lock" ELSE "check"
<1>1. /\ pc[t] \in CallPc /\ there \in CallPc /\ Goto(t, there)
      /\ there \in Locked => pc[t] \in Locked
  BY DEF Search, CallPc, Locked
<1> HIDE DEF there
<1>2. /\ pc' \in [Thread -> AllPc] /\ MakerAlone' /\ CallsListed' /\ LifeListed'
  BY <1>1, InsideCall DEF Search, domainVars
<1>3. ListsTyped' /\ HeapsTyped'
  BY DEF SInv, ListsTyped, HeapsTyped, Search, domainVars, infoVars
<1>4. LocalsTyped'
  <2>1. udi_control[udi[t]] \in Slot
    BY <1>1 DEF SInv, CallsListed, ListsTyped
  <2> QED
    BY <1>2, <2>1 DEF SInv, LocalsTyped, Search
<1>5. LocksHeld'
  BY <1>1, LocksKept DEF SInv, Search
<1>6. CallsFound'
  <2>1. /\ sdi'[t] = udi_control'[udi'[t]]
        /\ \A v \in Thread \ {t} : sdi'[v] = sdi[v] /\ pc'[v] = pc[v]
        /\ UNCHANGED <<name, udi, udi_control>>
    BY DEF Search, Goto, domainVars, SInv, LocalsTyped
  <2> QED
    BY <2>1 DEF SInv, CallsFound, Found
<1> QED
  BY <1>2, <1>3, <1>4, <1>5, <1>6 DEF SInv

(* The lock is given to one thread. *)
LEMMA LockStep ==
  ASSUME SInv, NEW t \in Thread, Lock(t)
  PROVE  SInv'
<1> DEFINE there == IF name[t] = "free" THEN "find" ELSE "check"
<1>1. /\ pc[t] \in CallPc /\ pc[t] \notin Locked /\ there \in CallPc /\ there # "app"
      /\ pc' = [pc EXCEPT ![t] = there] /\ pc \in [Thread -> AllPc]
  BY DEF Lock, At, Goto, CallPc, Locked, SInv, LocalsTyped
<1> HIDE DEF there
<1>2. /\ pc' \in [Thread -> AllPc] /\ MakerAlone' /\ CallsListed' /\ LifeListed'
  BY <1>1, InsideCall DEF Goto, Lock, domainVars, localVars
<1>3. ListsTyped' /\ HeapsTyped'
  BY DEF SInv, ListsTyped, HeapsTyped, Lock, domainVars, infoVars
<1>4. LocalsTyped'
  BY <1>2 DEF SInv, LocalsTyped, Lock, localVars
<1>5. LocksHeld'
  <2>1. Unlocked(t, name[t]) /\ Take(t, name[t]) /\ name' = name
    BY DEF Lock, localVars
  <2>2. Holds(t)'
    BY <2>1 DEF Take, Holds
  <2>3. ASSUME NEW v \in Thread \ {t}, pc'[v] \in Locked PROVE Holds(v)'
    <3>1. Holds(v)
      BY <1>1, <2>3 DEF SInv, LocksHeld
    <3>2. v # NoThread
      BY SharedAssumption
    <3> QED
      BY <2>1, <3>1, <3>2 DEF Take, Holds, Unlocked, CanLock
  <2>4. /\ sgm_lock' \in Thread \cup {NoThread} /\ malloc_mutex' \in Thread \cup {NoThread}
        /\ sgm_count' \in Nat /\ (sgm_count' = 0 <=> sgm_lock' = NoThread)
    BY <2>1, SharedAssumption DEF Take, SInv, LocksHeld
  <2> QED
    BY <2>2, <2>3, <2>4 DEF LocksHeld
<1>6. CallsFound'
  <2>1. UNCHANGED <<name, udi, sdi, udi_control>> /\ pc[t] = "lock"
    BY DEF Lock, At, localVars, domainVars
  <2>2. Found(t)' => Found(t)
    BY <1>1, <2>1 DEF Found, there
  <2> QED
    BY <1>1, <2>1, <2>2 DEF SInv, CallsFound, Found
<1> QED
  BY <1>2, <1>3, <1>4, <1>5, <1>6 DEF SInv

(* The steps under the lock that look and write heaps. *)
LEMMA UnderLock ==
  ASSUME SInv, NEW t \in Thread, NEW there \in Locked \ {"find"},
         pc[t] \in Locked \ {"find"}, Goto(t, there),
         UNCHANGED <<domainVars, lockVars, callVars>>, HeapsTyped'
  PROVE  SInv'
<1>1. /\ pc' \in [Thread -> AllPc] /\ MakerAlone' /\ CallsListed' /\ LifeListed'
  BY InsideCall, Places DEF domainVars, callVars, localVars
<1>2. ListsTyped'
  BY DEF SInv, ListsTyped, domainVars
<1>3. LocalsTyped'
  BY <1>1 DEF SInv, LocalsTyped, callVars, localVars
<1>4. LocksHeld'
  BY LocksKept DEF SInv, callVars, localVars
<1>5. CallsFound'
  <2>1. UNCHANGED <<name, udi, sdi, udi_control>>
    BY DEF callVars, localVars, domainVars
  <2>2. Found(t) /\ \A v \in Thread \ {t} : pc'[v] = pc[v]
    BY DEF Found, Goto, SInv, LocalsTyped
  <2> QED
    BY <2>1, <2>2 DEF SInv, CallsFound, Found
<1> QED
  BY <1>1, <1>2, <1>3, <1>4, <1>5 DEF SInv

(* The call looks whether it has a heap. *)
LEMMA CheckStep ==
  ASSUME SInv, NEW t \in Thread, Check(t)
  PROVE  SInv'
<1>1. pc[t] \in Locked \ {"find"} /\ \E there \in Locked \ {"find"} : Goto(t, there)
  BY DEF Check, At, Locked
<1>2. HeapsTyped'
  BY DEF SInv, HeapsTyped, Check, domainVars, infoVars
<1> QED
  BY <1>1, <1>2, UnderLock DEF Check

(* It makes its own ... *)
LEMMA InitOwnStep ==
  ASSUME SInv, NEW t \in Thread, InitOwn(t)
  PROVE  SInv'
<1>1. /\ pc[t] \in Locked \ {"find"} /\ "tlsf" \in Locked \ {"find"}
      /\ Goto(t, "tlsf")
  BY DEF InitOwn, At, Locked
<1>2. HeapsTyped'
  BY MapHeapTyped DEF SInv, LocalsTyped, InitOwn, domainVars
<1> QED
  BY <1>1, <1>2, UnderLock DEF InitOwn

(* A call that has looked up its slot found one of the maker's. *)
LEMMA OwnerIsMaker ==
  ASSUME SInv, NEW t \in Thread, Found(t)
  PROVE  /\ pc[t] \in CallPc /\ udi[t] \in DOMAIN udi_control
         /\ sdi[t] = udi_control[udi[t]] /\ sdi[t] \in Slot
         /\ Owner(t) = Maker /\ Maker \in Thread
<1>1. pc[t] \in CallPc
  BY DEF Found, Locked, CallPc
<1> QED
  BY <1>1, SharedAssumption
    DEF SInv, CallsListed, CallsFound, ListsTyped, LocalsTyped, Owner

(* ... or the owner's ... *)
LEMMA InitOwnerStep ==
  ASSUME SInv, NEW t \in Thread, InitOwner(t)
  PROVE  SInv'
<1>1. /\ pc[t] \in Locked \ {"find"} /\ Found(t)
      /\ \E there \in Locked \ {"find"} : Goto(t, there)
  BY DEF InitOwner, Locked, Found
<1>2. HeapsTyped'
  BY <1>1, OwnerIsMaker, MapHeapTyped, KeepHeapsTyped
    DEF SInv, InitOwner, OwnerHeap, domainVars
<1> QED
  BY <1>1, <1>2, UnderLock DEF InitOwner

(* ... or copies the owner's entry. *)
LEMMA CopyStep ==
  ASSUME SInv, NEW t \in Thread, Copy(t)
  PROVE  SInv'
<1>1. /\ pc[t] \in Locked \ {"find"} /\ Found(t)
      /\ \E there \in Locked \ {"find"} : Goto(t, there)
  BY DEF Copy, At, Locked, Found
<1>2. sdi_tlsf[Owner(t)][sdi[t]] \in 0 .. mapped /\ sdi[t] \in Slot
  BY <1>1, OwnerIsMaker DEF SInv, HeapsTyped
<1>3. HeapsTyped'
  BY <1>2, SetHeapTyped DEF SInv, HeapsTyped, Copy, domainVars
<1> QED
  BY <1>1, <1>3, UnderLock DEF Copy

(* The lock is given back by who has it. *)
LEMMA ReturnStep ==
  ASSUME SInv, NEW t \in Thread, Return(t)
  PROVE  SInv'
<1>1. /\ pc[t] = "tlsf" /\ pc[t] \in Locked /\ Release(t, name[t])
      /\ Leave(t) /\ UNCHANGED <<domainVars, infoVars>>
  BY DEF Return, At, Locked
<1>2. LocalsTyped' /\ MakerAlone' /\ CallsListed' /\ CallsFound' /\ LifeListed'
  BY <1>1, LeaveKeeps DEF domainVars
<1>3. ListsTyped' /\ HeapsTyped'
  BY <1>1 DEF SInv, ListsTyped, HeapsTyped, domainVars, infoVars
<1>4. LocksHeld'
  <2>1. Holds(t) /\ t # NoThread
    BY <1>1, SharedAssumption DEF SInv, LocksHeld
  <2>2. /\ pc'[t] = "app"
        /\ \A v \in Thread \ {t} : pc'[v] = pc[v] /\ name'[v] = name[v]
    BY <1>1 DEF Leave, Goto, SInv, LocalsTyped
  <2>3. ASSUME NEW v \in Thread, pc'[v] \in Locked PROVE Holds(v)'
    <3>1. v # t /\ Holds(v) /\ name'[v] = name[v]
      BY <2>2, <2>3, Places DEF SInv, LocksHeld
    <3> QED
      BY <1>1, <2>1, <3>1 DEF Holds, Release
  <2>4. /\ sgm_lock' \in Thread \cup {NoThread} /\ malloc_mutex' \in Thread \cup {NoThread}
        /\ sgm_count' \in Nat /\ (sgm_count' = 0 <=> sgm_lock' = NoThread)
    BY <1>1, <2>1 DEF Release, Holds, SInv, LocksHeld
  <2> QED
    BY <2>3, <2>4 DEF LocksHeld
<1> QED
  BY <1>2, <1>3, <1>4 DEF SInv

(* A rewind takes the thread out of the call, and not the lock. *)
LEMMA RewindStep ==
  ASSUME SInv, NEW t \in Thread, Rewind(t)
  PROVE  SInv'
<1>1. LocalsTyped' /\ MakerAlone' /\ CallsListed' /\ CallsFound' /\ LifeListed'
  BY LeaveKeeps DEF Rewind, domainVars
<1>2. ListsTyped' /\ HeapsTyped'
  BY DEF SInv, ListsTyped, HeapsTyped, Rewind, domainVars, infoVars
<1>3. LocksHeld'
  BY LocksKept, Places DEF SInv, LocalsTyped, Rewind, Leave
<1> QED
  BY <1>1, <1>2, <1>3 DEF SInv

(* A step that changes nothing. *)
LEMMA StutterStep ==
  ASSUME SInv, UNCHANGED vars
  PROVE  SInv'
<1> USE DEF vars, domainVars, lockVars, infoVars, callVars, localVars
<1>1. ListsTyped' /\ HeapsTyped' /\ LocalsTyped'
  BY DEF SInv, ListsTyped, HeapsTyped, LocalsTyped
<1>2. LocksHeld'
  BY DEF SInv, LocksHeld, Holds
<1>3. MakerAlone' /\ CallsListed' /\ CallsFound' /\ LifeListed'
  BY DEF SInv, MakerAlone, CallsListed, CallsFound, Found, LifeListed
<1> QED
  BY <1>1, <1>2, <1>3 DEF SInv

(* Every step keeps the invariant of any application. *)
LEMMA NextSInv ==
  ASSUME SInv, [Next]_vars
  PROVE  SInv'
<1>1. CASE \E t \in Thread, u \in Udi, k \in Kinds : sdrad_init(t, u, k)
  BY <1>1, InitStep
<1>2. CASE \E t \in Thread, u \in Udi, how \in Ends : sdrad_destroy(t, u, how)
  BY <1>2, DestroyStep
<1>3. CASE \E t \in Thread, u \in Udi, n \in Names : Begin(t, n, u)
  BY <1>3, BeginStep
<1>4. CASE \E t \in Thread : TakeSlot(t) \/ FillDomain(t) \/ Unlist(t)
  BY <1>4, TakeSlotStep, FillDomainStep, UnlistStep
<1>5. CASE \E t \in Thread : CallStep(t)
  BY <1>5, SearchStep, LockStep, CheckStep, InitOwnStep, InitOwnerStep, CopyStep,
     ReturnStep DEF CallStep
<1>6. CASE \E t \in Thread : Rewind(t)
  BY <1>6, RewindStep
<1>7. CASE UNCHANGED vars
  BY <1>7, StutterStep
<1> QED
  BY <1>1, <1>2, <1>3, <1>4, <1>5, <1>6, <1>7 DEF Next

(* The invariant of any application holds. *)
THEOREM SharedInvariance == Spec => []SInv
<1>1. Init => SInv
  BY InitSInv
<1>2. SInv /\ [Next]_vars => SInv'
  BY NextSInv
<1> QED
  BY <1>1, <1>2, PTL DEF Spec

(* However many threads call on however many domains, and whatever they call, *)
(* the tables keep their types and who is past a lock was given it.           *)
THEOREM SharedTypesCorrect == Spec => []TypeOK
<1>1. SInv => TypeOK
  BY DEF SInv, ListsTyped, HeapsTyped, LocalsTyped, LocksHeld, Holds, AllPc, TypeOK
<1> QED
  BY <1>1, SharedInvariance, PTL

-----------------------------------------------------------------------------
(* One thread in a heap *)

(* sdrad_memalign takes the other lock. *)
NoMemalign == \A call \in Calls : call.name # "memalign"

(* Without sdrad_memalign a thread in the allocator holds sgm_lock. *)
LEMMA HoldsSgmLock ==
  ASSUME NoMemalign, SInv, NEW t \in Thread, pc[t] \in Locked
  PROVE  sgm_lock = t
<1>1. [name |-> name[t], kind |-> kind[udi[t]]] \in Calls
  BY Places DEF SInv, CallsListed
<1>2. name[t] # "memalign"
  BY <1>1 DEF NoMemalign
<1> QED
  BY <1>2 DEF SInv, LocksHeld, Holds

(* In a program that does not call sdrad_memalign on a shared domain, two     *)
(* threads are never in the allocator at once, on one heap or on two.         *)
THEOREM HeapsAreExclusive ==
  ASSUME NoMemalign
  PROVE  Spec => []HeapExclusive
<1>1. SInv => HeapExclusive
  <2>1. "tlsf" \in Locked
    BY DEF Locked
  <2> QED
    BY <2>1, HoldsSgmLock DEF HeapExclusive, At
<1> QED
  BY <1>1, SharedInvariance, PTL
-----------------------------------------------------------------------------
(* One heap for a domain.  The two things the application must keep to:      *)
(* what sdrad_calloc and sdrad_realloc copy has a heap on data domains only, *)
(* and a slot that a rewind gives back keeps its heap in other tables.       *)
CallsOrdered ==
  /\ NoMemalign
  /\ \A call \in Calls : call.name \in {"calloc", "realloc"} => call.kind = "DATA"
  /\ Ends \subseteq {"destroy"}

HasHeap(s) == sdi_init_heap_flag[Maker][s]
HeapIn(s)  == sdi_tlsf[Maker][s]

(* Listed, and not about to leave the list. *)
Live(u) == u \in DOMAIN udi_control /\ ~(pc[Maker] = "unlist" /\ udi[Maker] = u)

(* A slot is used once, and for one domain. *)
SlotsUsedOnce ==
  /\ \A t \in Thread, s \in Slot : sdi_init_heap_flag[t][s] => s \in status
  /\ \A u \in DOMAIN udi_control : udi_control[u] \in status
  /\ \A u, v \in DOMAIN udi_control : udi_control[u] = udi_control[v] => u = v

(* Who has a heap for a domain has the maker's. *)
CopiesAgree ==
  /\ \A t \in Thread, s \in Slot :
       sdi_init_heap_flag[t][s] => HasHeap(s) /\ sdi_tlsf[t][s] = HeapIn(s)
  /\ \A s \in Slot : HasHeap(s) => HeapIn(s) # NULL

(* The slot that is filled was never used. *)
Filling ==
  pc[Maker] = "fill" => /\ sdi[Maker] = udi_control[udi[Maker]]
                        /\ ~HasHeap(sdi[Maker])

(* A data domain has its heap from the start. *)
DataHasHeap ==
  \A u \in DOMAIN udi_control :
    kind[u] = "DATA" /\ ~(pc[Maker] = "fill" /\ udi[Maker] = u) => HasHeap(udi_control[u])

(* What the application holds lies in the maker's heap. *)
HeldInHeap ==
  \A h \in held : /\ Live(h.udi)
                  /\ HasHeap(udi_control[h.udi]) /\ HeapIn(udi_control[h.udi]) = h.heap

(* What a call has found out stays true until it acts on it. *)
Knows(t) ==
  /\ pc[t] \in CallPc /\ name[t] \in {"free", "realloc"} =>
       HasHeap(udi_control[udi[t]]) /\ HeapIn(udi_control[udi[t]]) = ptr[t]
  /\ pc[t] = "own" => t = Maker /\ ~HasHeap(sdi[t])
  /\ pc[t] \in {"owner", "copy", "late"} => t # Maker
  /\ pc[t] \in {"copy", "late", "tlsf"} => HasHeap(sdi[t])
  /\ pc[t] \in {"late", "tlsf"} => Heap(t) = HeapIn(sdi[t])

CallsKnow == \A t \in Thread : Knows(t)

(* No heap is in two places. *)
LiveApart ==
  \A u, v \in Udi : Live(u) /\ Live(v) /\ u # v
      /\ HasHeap(udi_control[u]) /\ HasHeap(udi_control[v])
    => HeapIn(udi_control[u]) # HeapIn(udi_control[v])

LiveNotCached ==
  \A u \in Udi, i \in DOMAIN cache : Live(u) /\ HasHeap(udi_control[u])
    => cache[i] # HeapIn(udi_control[u])

CachedApart ==
  \A i, j \in DOMAIN cache : cache[i] = cache[j] /\ cache[i] # NULL => i = j

OInv ==
  /\ SInv
  /\ SlotsUsedOnce
  /\ CopiesAgree
  /\ Filling
  /\ DataHasHeap
  /\ HeldInHeap
  /\ CallsKnow
  /\ LiveApart
  /\ LiveNotCached
  /\ CachedApart

-----------------------------------------------------------------------------
(* What a call found out stays true while the entries it is about do. *)
LEMMA KnowsKept ==
  ASSUME NEW v \in Thread, Knows(v), UNCHANGED <<pc[v], name[v], udi[v], sdi[v], ptr[v]>>,
         pc[v] \in CallPc /\ name[v] \in {"free", "realloc"} =>
           /\ udi_control'[udi[v]] = udi_control[udi[v]]
           /\ UNCHANGED <<HasHeap(udi_control[udi[v]]), HeapIn(udi_control[udi[v]])>>,
         Found(v) => UNCHANGED <<HasHeap(sdi[v]), HeapIn(sdi[v]), Heap(v)>>
  PROVE  Knows(v)'
<1>1. pc[v] \in {"own", "owner", "copy", "late", "tlsf"} => Found(v)
  BY DEF Found, Locked
<1>2. (pc[v] \in CallPc /\ name[v] \in {"free", "realloc"} =>
        HasHeap(udi_control[udi[v]]) /\ HeapIn(udi_control[udi[v]]) = ptr[v])'
  BY DEF Knows, HasHeap, HeapIn
<1>3. (pc[v] = "own" => v = Maker /\ ~HasHeap(sdi[v]))'
  BY <1>1 DEF Knows, HasHeap, HeapIn
<1>4. (pc[v] \in {"owner", "copy", "late"} => v # Maker)'
  BY DEF Knows
<1>5. (pc[v] \in {"copy", "late", "tlsf"} => HasHeap(sdi[v]))'
  BY <1>1 DEF Knows, HasHeap
<1>6. (pc[v] \in {"late", "tlsf"} => Heap(v) = HeapIn(sdi[v]))'
  BY <1>1 DEF Knows, HeapIn, Heap
<1> QED
  BY <1>2, <1>3, <1>4, <1>5, <1>6 DEF Knows

(* The steps that write no entry and no list. *)
LEMMA QuietCall ==
  ASSUME OInv, SInv', NEW t \in Thread, UNCHANGED <<domainVars, infoVars>>,
         pc[t] \notin LifePc, pc'[t] \notin LifePc,
         \A v \in Thread \ {t} :
           UNCHANGED <<pc[v], name[v], udi[v], sdi[v], ptr[v]>>,
         HeldInHeap', Knows(t)'
  PROVE  OInv'
<1> USE DEF domainVars, infoVars
<1>1. SlotsUsedOnce' /\ CopiesAgree' /\ CachedApart'
  BY DEF OInv, SlotsUsedOnce, CopiesAgree, CachedApart, HasHeap, HeapIn
<1>2. /\ pc[Maker] = "fill" <=> pc'[Maker] = "fill"
      /\ pc[Maker] = "unlist" <=> pc'[Maker] = "unlist"
      /\ pc[Maker] \in {"fill", "unlist"} => UNCHANGED <<udi[Maker], sdi[Maker]>>
  BY SharedAssumption DEF LifePc
<1>3. \A u : Live(u)' <=> Live(u)
  BY <1>2 DEF Live
<1>4. Filling' /\ DataHasHeap'
  BY <1>2 DEF OInv, Filling, DataHasHeap, HasHeap
<1>5. LiveApart' /\ LiveNotCached'
  BY <1>3 DEF OInv, LiveApart, LiveNotCached, HasHeap, HeapIn
<1>6. CallsKnow'
  BY KnowsKept DEF OInv, CallsKnow, HasHeap, HeapIn, Heap
<1> QED
  BY <1>1, <1>4, <1>5, <1>6 DEF OInv

(* The application's memory stays where it is. *)
LEMMA HeldKept ==
  ASSUME OInv, NEW t \in Thread, UNCHANGED <<domainVars, infoVars>>,
         pc[t] \notin LifePc, pc'[t] \notin LifePc,
         \A v \in Thread \ {t} : UNCHANGED <<pc[v], udi[v]>>,
         \A h \in held' : h \in held \/
           (Live(h.udi) /\ HasHeap(udi_control[h.udi]) /\ HeapIn(udi_control[h.udi]) = h.heap)
  PROVE  HeldInHeap'
<1>1. \A u : Live(u)' <=> Live(u)
  BY SharedAssumption DEF Live, LifePc, domainVars
<1> QED
  BY <1>1 DEF OInv, HeldInHeap, HasHeap, HeapIn, domainVars, infoVars

(* What the application frees lies in the owner's heap. *)
LEMMA BeginOwned ==
  ASSUME OInv, SInv', NEW t \in Thread, NEW n \in Names, NEW u \in Udi, Begin(t, n, u)
  PROVE  OInv'
<1>1. /\ pc[t] = "app" /\ pc'[t] \in {"lock", "search"} /\ udi'[t] = u /\ name'[t] = n
      /\ UNCHANGED <<domainVars, infoVars, sdi, held>>
      /\ \A v \in Thread \ {t} :
           UNCHANGED <<pc[v], name[v], udi[v], sdi[v], ptr[v]>>
  BY DEF Begin, At, Goto, OInv, SInv, LocalsTyped
<1>2. pc[t] \notin LifePc /\ pc'[t] \notin LifePc
  BY <1>1 DEF LifePc
<1>3. HeldInHeap'
  BY <1>1, <1>2, HeldKept
<1>4. Knows(t)'
  <2>1. ASSUME n \in {"free", "realloc"}
        PROVE  HasHeap(udi_control[u]) /\ HeapIn(udi_control[u]) = ptr'[t]
    <3>1. PICK x \in held : x.udi = u /\ ptr' = [ptr EXCEPT ![t] = x.heap]
      BY <2>1 DEF Begin
    <3>2. HasHeap(udi_control[u]) /\ HeapIn(udi_control[u]) = x.heap
      BY <3>1 DEF OInv, HeldInHeap
    <3> QED
      BY <3>1, <3>2 DEF OInv, SInv, LocalsTyped
  <2> QED
    BY <1>1, <2>1 DEF Knows, HasHeap, HeapIn, domainVars, infoVars
<1> QED
  BY <1>1, <1>2, <1>3, <1>4, QuietCall

(* Looking up the slot writes no entry ... *)
LEMMA SearchOwned ==
  ASSUME OInv, SInv', NEW t \in Thread, Search(t)
  PROVE  OInv'
<1>1. /\ pc[t] \in {"search", "find"} /\ pc'[t] \in {"lock", "check"}
      /\ UNCHANGED <<domainVars, infoVars, name, udi, ptr, held>>
      /\ \A v \in Thread \ {t} :
           UNCHANGED <<pc[v], name[v], udi[v], sdi[v], ptr[v]>>
  BY DEF Search, Goto, OInv, SInv, LocalsTyped
<1>2. pc[t] \notin LifePc /\ pc'[t] \notin LifePc /\ pc[t] \in CallPc
  BY <1>1 DEF LifePc, CallPc, Locked
<1>3. HeldInHeap'
  BY <1>1, <1>2, HeldKept
<1>4. Knows(t)'
  <2>1. Knows(t)
    BY DEF OInv, CallsKnow
  <2> QED
    BY <1>1, <1>2, <2>1 DEF Knows, HasHeap, HeapIn, domainVars, infoVars
<1> QED
  BY <1>1, <1>2, <1>3, <1>4, QuietCall

(* ... nor does taking the lock. *)
LEMMA LockOwned ==
  ASSUME OInv, SInv', NEW t \in Thread, Lock(t)
  PROVE  OInv'
<1>1. /\ pc[t] = "lock" /\ pc'[t] \in {"find", "check"}
      /\ UNCHANGED <<domainVars, infoVars, name, udi, sdi, ptr, held>>
      /\ \A v \in Thread \ {t} :
           UNCHANGED <<pc[v], name[v], udi[v], sdi[v], ptr[v]>>
  BY DEF Lock, At, Goto, localVars, OInv, SInv, LocalsTyped
<1>2. pc[t] \notin LifePc /\ pc'[t] \notin LifePc /\ pc[t] \in CallPc
  BY <1>1 DEF LifePc, CallPc, Locked
<1>3. HeldInHeap'
  BY <1>1, <1>2, HeldKept
<1>4. Knows(t)'
  <2>1. Knows(t)
    BY DEF OInv, CallsKnow
  <2> QED
    BY <1>1, <1>2, <2>1 DEF Knows, HasHeap, HeapIn, domainVars, infoVars
<1> QED
  BY <1>1, <1>2, <1>3, <1>4, QuietCall

(* How the application calls. *)
LEMMA CallFacts ==
  ASSUME CallsOrdered, SInv, NEW t \in Thread, pc[t] \in CallPc
  PROVE  /\ name[t] \in Names /\ name[t] # "memalign"
         /\ name[t] = "calloc" => kind[udi[t]] = "DATA"
         /\ udi[t] \in DOMAIN udi_control /\ Live(udi[t])
         /\ ~(pc[Maker] = "fill" /\ udi[Maker] = udi[t])
<1>1. /\ udi[t] \in DOMAIN udi_control
      /\ [name |-> name[t], kind |-> kind[udi[t]]] \in Calls
      /\ \A v \in Thread : pc[v] \in LifePc => udi[v] # udi[t]
  BY DEF SInv, CallsListed
<1>2. name[t] \in Names
  BY DEF SInv, LocalsTyped
<1>3. name[t] # "memalign" /\ (name[t] = "calloc" => kind[udi[t]] = "DATA")
  BY <1>1 DEF CallsOrdered, NoMemalign
<1> QED
  BY <1>1, <1>2, <1>3, SharedAssumption DEF Live, LifePc

(* Each branch knows what it needs: who copies, copies an entry with a heap. *)
LEMMA CheckOwned ==
  ASSUME CallsOrdered, OInv, SInv', NEW t \in Thread, Check(t)
  PROVE  OInv'
<1>1. /\ pc[t] = "check" /\ pc'[t] \in {"tlsf", "own", "owner", "copy"}
      /\ UNCHANGED <<domainVars, infoVars, name, udi, sdi, ptr, held>>
      /\ \A v \in Thread \ {t} :
           UNCHANGED <<pc[v], name[v], udi[v], sdi[v], ptr[v]>>
  BY DEF Check, At, Goto, callVars, localVars, OInv, SInv, LocalsTyped
<1>2. pc[t] \notin LifePc /\ pc'[t] \notin LifePc /\ pc[t] \in CallPc /\ Found(t)
  BY <1>1 DEF LifePc, CallPc, Locked, Found
<1>3. HeldInHeap'
  BY <1>1, <1>2, HeldKept
<1>4. /\ name[t] \in Names /\ name[t] # "memalign"
      /\ name[t] = "calloc" => kind[udi[t]] = "DATA"
      /\ udi[t] \in DOMAIN udi_control
      /\ ~(pc[Maker] = "fill" /\ udi[Maker] = udi[t])
  BY <1>2, CallFacts DEF OInv
<1>5. Owner(t) = Maker /\ sdi[t] = udi_control[udi[t]] /\ sdi[t] \in Slot
  BY <1>2, OwnerIsMaker DEF OInv
<1>6. /\ name[t] = "calloc" => HasHeap(sdi[t])
      /\ name[t] \in {"free", "realloc"} => HasHeap(sdi[t]) /\ HeapIn(sdi[t]) = ptr[t]
  <2>1. Knows(t)
    BY DEF OInv, CallsKnow
  <2> QED
    BY <1>2, <1>4, <1>5, <2>1 DEF Knows, OInv, DataHasHeap
<1>7. CASE Flag(t, t)
  <2>1. pc'[t] = "tlsf"
    BY <1>7 DEF Check, Goto, OInv, SInv, LocalsTyped
  <2>2. HasHeap(sdi[t]) /\ Heap(t) = HeapIn(sdi[t])
    BY <1>5, <1>7 DEF Flag, Heap, OInv, CopiesAgree
  <2>3. Knows(t)'
    BY <1>1, <1>5, <1>6, <2>1, <2>2
      DEF Knows, HasHeap, HeapIn, Heap, domainVars, infoVars
  <2> QED
    BY <1>1, <1>2, <1>3, <2>3, QuietCall
<1>8. CASE ~Flag(t, t) /\ t = Maker
  <2>1. ~HasHeap(sdi[t])
    BY <1>8 DEF Flag, HasHeap
  <2>2. pc'[t] = "own"
    BY <1>4, <1>5, <1>6, <1>8, <2>1 DEF Check, Goto, OInv, SInv, LocalsTyped
  <2>3. Knows(t)'
    BY <1>1, <1>6, <1>8, <2>1, <2>2 DEF Knows, HasHeap, HeapIn, domainVars, infoVars
  <2> QED
    BY <1>1, <1>2, <1>3, <2>3, QuietCall
<1>9. CASE ~Flag(t, t) /\ t # Maker
  <2>1. pc'[t] = IF name[t] = "malloc" THEN "owner" ELSE "copy"
    BY <1>4, <1>5, <1>9 DEF Check, Goto, OInv, SInv, LocalsTyped
  <2>2. pc'[t] = "copy" => HasHeap(sdi[t])
    BY <1>4, <1>6, <2>1 DEF Names
  <2>3. Knows(t)'
    BY <1>1, <1>5, <1>6, <1>9, <2>1, <2>2 DEF Knows, HasHeap, HeapIn, domainVars, infoVars
  <2> QED
    BY <1>1, <1>2, <1>3, <2>3, QuietCall
<1> QED
  BY <1>7, <1>8, <1>9

(* What the allocator gives is in the owner's heap. *)
LEMMA ReturnOwned ==
  ASSUME CallsOrdered, OInv, SInv', NEW t \in Thread, Return(t)
  PROVE  OInv'
<1>1. /\ pc[t] = "tlsf" /\ pc'[t] = "app"
      /\ UNCHANGED <<domainVars, infoVars>>
      /\ \A v \in Thread \ {t} :
           UNCHANGED <<pc[v], name[v], udi[v], sdi[v], ptr[v]>>
  BY DEF Return, Leave, At, Goto, OInv, SInv, LocalsTyped
<1>2. /\ pc[t] \notin LifePc /\ pc'[t] \notin LifePc /\ pc[t] \in CallPc /\ Found(t)
      /\ pc'[t] \notin CallPc
  BY <1>1 DEF LifePc, CallPc, Locked, Found
<1>3. HeldInHeap'
  <2>1. /\ Live(udi[t])
        /\ HasHeap(udi_control[udi[t]]) /\ HeapIn(udi_control[udi[t]]) = Heap(t)
    <3>1. Live(udi[t]) /\ sdi[t] = udi_control[udi[t]]
      BY <1>2, CallFacts, OwnerIsMaker DEF OInv
    <3>2. HasHeap(sdi[t]) /\ HeapIn(sdi[t]) = Heap(t)
      BY <1>1 DEF OInv, CallsKnow, Knows
    <3> QED
      BY <3>1, <3>2
  <2>2. \A h \in held' : h \in held \/ h = [udi |-> udi[t], heap |-> Heap(t)]
    BY DEF Return
  <2>3. \A h \in held' : h \in held \/
           (Live(h.udi) /\ HasHeap(udi_control[h.udi]) /\ HeapIn(udi_control[h.udi]) = h.heap)
    BY <2>1, <2>2
  <2> QED
    BY <1>1, <1>2, <2>3, HeldKept
<1>4. Knows(t)'
  BY <1>1, <1>2 DEF Knows
<1> QED
  BY <1>1, <1>2, <1>3, <1>4, QuietCall

(* A fault in the allocator moves no heap. *)
LEMMA RewindOwned ==
  ASSUME OInv, SInv', NEW t \in Thread, Rewind(t)
  PROVE  OInv'
<1>1. /\ pc[t] = "tlsf" /\ pc'[t] = "app"
      /\ UNCHANGED <<domainVars, infoVars, held>>
      /\ \A v \in Thread \ {t} :
           UNCHANGED <<pc[v], name[v], udi[v], sdi[v], ptr[v]>>
  BY DEF Rewind, Leave, At, Goto, OInv, SInv, LocalsTyped
<1>2. pc[t] \notin LifePc /\ pc'[t] \notin LifePc /\ pc'[t] \notin CallPc
  BY <1>1 DEF LifePc, CallPc, Locked
<1>3. HeldInHeap'
  BY <1>1, <1>2, HeldKept
<1>4. Knows(t)'
  BY <1>1, <1>2 DEF Knows
<1> QED
  BY <1>1, <1>2, <1>3, <1>4, QuietCall

(* A step that changes nothing. *)
LEMMA StutterOwned ==
  ASSUME OInv, SInv', UNCHANGED vars
  PROVE  OInv'
<1> USE DEF vars, domainVars, lockVars, infoVars, callVars, localVars
<1>1. SlotsUsedOnce' /\ CopiesAgree' /\ CachedApart' /\ Filling' /\ DataHasHeap'
  BY DEF OInv, SlotsUsedOnce, CopiesAgree, CachedApart, Filling, DataHasHeap, HasHeap, HeapIn
<1>2. HeldInHeap' /\ LiveApart' /\ LiveNotCached'
  BY DEF OInv, HeldInHeap, LiveApart, LiveNotCached, Live, HasHeap, HeapIn
<1>3. CallsKnow'
  BY DEF OInv, CallsKnow, Knows, Heap, HasHeap, HeapIn
<1> QED
  BY <1>1, <1>2, <1>3 DEF OInv

-----------------------------------------------------------------------------
(* The steps that write entries *)

(* Two calls on two domains are on two slots. *)
LEMMA SlotsDiffer ==
  ASSUME OInv, NEW u \in DOMAIN udi_control, NEW v \in DOMAIN udi_control, u # v
  PROVE  udi_control[u] # udi_control[v]
BY DEF OInv, SlotsUsedOnce

(* Nobody else is past the lock. *)
LEMMA OthersOutside ==
  ASSUME CallsOrdered, SInv, NEW t \in Thread, pc[t] \in Locked, NEW v \in Thread \ {t}
  PROVE  pc[v] \notin Locked
BY HoldsSgmLock DEF CallsOrdered

(* A call under the lock gives the maker's entry its heap. *)
LEMMA NewHeap ==
  ASSUME CallsOrdered, OInv, SInv', NEW t \in Thread, Found(t), pc[t] \in Locked,
         ~HasHeap(sdi[t]), MapHeap(Maker, sdi[t]), UNCHANGED <<domainVars, callVars, held>>,
         pc'[t] \in {"tlsf", "copy"}, pc' = [pc EXCEPT ![t] = pc'[t]],
         pc'[t] = "tlsf" => t = Maker, pc'[t] = "copy" => t # Maker,
         name[t] \notin {"free", "realloc"}
  PROVE  OInv'
<1> USE DEF domainVars, callVars, localVars
<1>0. PICK s \in Slot : s = sdi[t]
  BY OwnerIsMaker DEF OInv
<1>1. /\ udi[t] \in DOMAIN udi_control /\ s = udi_control[udi[t]] /\ s \in Slot
      /\ pc[t] \in CallPc /\ Maker \in Thread /\ ~(pc[Maker] = "fill" /\ udi[Maker] = udi[t])
      /\ s \in status
  BY <1>0, OwnerIsMaker, CallFacts DEF OInv, SlotsUsedOnce
<1>2. /\ sdi_tlsf' = [sdi_tlsf EXCEPT ![Maker][s] = mapped + 1]
      /\ sdi_init_heap_flag' = [sdi_init_heap_flag EXCEPT ![Maker][s] = TRUE]
      /\ sdi_tlsf \in [Thread -> [Slot -> 0 .. mapped]]
      /\ sdi_init_heap_flag \in [Thread -> [Slot -> BOOLEAN]]
      /\ mapped \in Nat
  BY <1>0 DEF MapHeap, SetHeap, OInv, SInv, HeapsTyped
<1>3. /\ HasHeap(s)' /\ HeapIn(s)' = mapped + 1 /\ ~HasHeap(s)
      /\ \A r \in Slot \ {s} : (HasHeap(r)' <=> HasHeap(r)) /\ HeapIn(r)' = HeapIn(r)
      /\ \A r \in Slot : HeapIn(r) \in 0 .. mapped
  BY <1>0, <1>1, <1>2 DEF HasHeap, HeapIn
<1>4. \A v \in Thread, r \in Slot : ~sdi_init_heap_flag[v][s]
        /\ (v # Maker \/ r # s =>
              UNCHANGED <<sdi_init_heap_flag[v][r], sdi_tlsf[v][r]>>)
  BY <1>1, <1>2, <1>3 DEF OInv, CopiesAgree
<1>5. SlotsUsedOnce'
  BY <1>1, <1>4 DEF OInv, SlotsUsedOnce
<1>6. CopiesAgree'
  <2>1. \A v \in Thread, r \in Slot : sdi_init_heap_flag'[v][r] =>
          HasHeap(r)' /\ sdi_tlsf'[v][r] = HeapIn(r)'
    <3> SUFFICES ASSUME NEW v \in Thread, NEW r \in Slot, sdi_init_heap_flag'[v][r]
                 PROVE  HasHeap(r)' /\ sdi_tlsf'[v][r] = HeapIn(r)'
      OBVIOUS
    <3>1. CASE v = Maker
      BY <3>1 DEF HasHeap, HeapIn
    <3>2. CASE v # Maker
      BY <1>3, <1>4, <3>2 DEF OInv, CopiesAgree
    <3> QED
      BY <3>1, <3>2
  <2>2. \A r \in Slot : HasHeap(r)' => HeapIn(r)' # NULL
    <3>1. \A r \in Slot : HasHeap(r) => HeapIn(r) # NULL
      BY DEF OInv, CopiesAgree
    <3>2. mapped + 1 # NULL
      BY <1>2 DEF NULL
    <3> QED
      BY <1>3, <3>1, <3>2 DEF HasHeap, HeapIn
  <2> QED
    BY <2>1, <2>2 DEF CopiesAgree, HasHeap, HeapIn
<1>7. /\ pc[Maker] = "fill" <=> pc'[Maker] = "fill"
      /\ pc[Maker] = "unlist" <=> pc'[Maker] = "unlist"
  BY <1>1, Places DEF OInv, SInv, LocalsTyped, LifePc
<1>8. Filling'
  <2> SUFFICES ASSUME pc[Maker] = "fill"
               PROVE  sdi[Maker] = udi_control[udi[Maker]] /\ ~HasHeap(sdi[Maker])'
    BY <1>7 DEF Filling, HasHeap
  <2>1. sdi[Maker] = udi_control[udi[Maker]] /\ ~HasHeap(sdi[Maker])
    BY DEF OInv, Filling
  <2>2. udi[Maker] \in DOMAIN udi_control /\ udi[Maker] # udi[t]
    BY <1>1, SharedAssumption DEF OInv, SInv, LifeListed, LifePc
  <2>3. sdi[Maker] \in Slot \ {s}
    BY <1>1, <2>1, <2>2, SlotsDiffer DEF OInv, SInv, LocalsTyped
  <2> QED
    BY <1>3, <2>1, <2>3
<1>9. \A u \in DOMAIN udi_control : udi_control[u] \in Slot /\ u \in Udi
  BY DEF OInv, SInv, ListsTyped
<1>10. DataHasHeap'
  BY <1>3, <1>7, <1>9 DEF OInv, DataHasHeap, HasHeap
<1>11. \A u : Live(u)' <=> Live(u)
  BY <1>7 DEF Live
<1>12. HeldInHeap'
  <2> SUFFICES ASSUME NEW h \in held
               PROVE  /\ Live(h.udi)' /\ HasHeap(udi_control[h.udi])'
                      /\ HeapIn(udi_control[h.udi])' = h.heap
    BY DEF HeldInHeap, HasHeap, HeapIn
  <2>1. /\ Live(h.udi)
        /\ HasHeap(udi_control[h.udi]) /\ HeapIn(udi_control[h.udi]) = h.heap
    BY DEF OInv, HeldInHeap
  <2>2. udi_control[h.udi] \in Slot \ {s}
    <3>1. h.udi \in DOMAIN udi_control
      BY <2>1 DEF Live
    <3> QED
      BY <1>3, <1>9, <2>1, <3>1
  <2>3. Live(h.udi)'
    BY <1>11, <2>1
  <2> QED
    BY <1>3, <2>1, <2>2, <2>3
<1>13. \A u \in DOMAIN udi_control : HasHeap(udi_control[u])' =>
          \/ udi_control[u] = s /\ HeapIn(udi_control[u])' = mapped + 1
          \/ /\ HasHeap(udi_control[u]) /\ HeapIn(udi_control[u])' = HeapIn(udi_control[u])
             /\ HeapIn(udi_control[u]) # mapped + 1
  <2>1. \A r \in Slot : HeapIn(r) # mapped + 1
    BY <1>2, <1>3
  <2> QED
    BY <1>3, <1>9, <2>1 DEF HasHeap, HeapIn
<1>14. LiveApart'
  <2> SUFFICES ASSUME NEW u \in Udi, NEW v \in Udi, Live(u), Live(v), u # v,
                      HasHeap(udi_control[u])', HasHeap(udi_control[v])'
               PROVE  HeapIn(udi_control[u])' # HeapIn(udi_control[v])'
    BY <1>11 DEF LiveApart, HasHeap, HeapIn
  <2>1. /\ u \in DOMAIN udi_control /\ v \in DOMAIN udi_control
        /\ udi_control[u] # udi_control[v]
    BY SlotsDiffer DEF Live
  <2> QED
    BY <1>13, <2>1 DEF OInv, LiveApart
<1>15. LiveNotCached'
  <2> SUFFICES ASSUME NEW u \in Udi, NEW i \in DOMAIN cache, Live(u), HasHeap(udi_control[u])'
               PROVE  cache[i] # HeapIn(udi_control[u])'
    BY <1>11 DEF LiveNotCached, HasHeap, HeapIn
  <2>1. cache[i] # mapped + 1
    <3>1. cache[i] \in 0 .. mapped
      BY ElementOfSeq, LenProperties DEF OInv, SInv, HeapsTyped
    <3> QED
      BY <1>2, <3>1
  <2>2. u \in DOMAIN udi_control
    BY DEF Live
  <2> QED
    BY <1>13, <2>1, <2>2 DEF OInv, LiveNotCached
<1>16. CachedApart'
  BY DEF OInv, CachedApart
<1>17. CallsKnow'
  <2>1. Knows(t)'
    BY <1>0, <1>3 DEF Knows, HasHeap, HeapIn, Heap
  <2>2. ASSUME NEW v \in Thread \ {t} PROVE Knows(v)'
    <3>1. Knows(v) /\ pc'[v] = pc[v] /\ pc[v] \notin Locked
      BY OthersOutside DEF OInv, SInv, LocalsTyped, CallsKnow
    <3>2. pc[v] \in CallPc /\ name[v] \in {"free", "realloc"} =>
            /\ HasHeap(udi_control[udi[v]])' <=> HasHeap(udi_control[udi[v]])
            /\ HeapIn(udi_control[udi[v]])' = HeapIn(udi_control[udi[v]])
      <4> SUFFICES ASSUME pc[v] \in CallPc, name[v] \in {"free", "realloc"}
                   PROVE  /\ HasHeap(udi_control[udi[v]])' <=> HasHeap(udi_control[udi[v]])
                          /\ HeapIn(udi_control[udi[v]])' = HeapIn(udi_control[udi[v]])
        OBVIOUS
      <4>1. HasHeap(udi_control[udi[v]]) /\ udi[v] \in DOMAIN udi_control
        BY <3>1 DEF Knows, OInv, SInv, CallsListed
      <4>2. udi_control[udi[v]] \in Slot \ {s}
        BY <1>3, <1>9, <4>1
      <4> QED
        BY <1>3, <4>2 DEF HasHeap, HeapIn
    <3> QED
      BY <3>1, <3>2 DEF Knows, HasHeap, HeapIn, Locked
  <2> QED
    BY <2>1, <2>2 DEF CallsKnow
<1> QED
  BY <1>5, <1>6, <1>8, <1>10, <1>12, <1>14, <1>15, <1>16, <1>17 DEF OInv

(* The maker makes its own heap, once. *)
LEMMA InitOwnOwned ==
  ASSUME CallsOrdered, OInv, SInv', NEW t \in Thread, InitOwn(t)
  PROVE  OInv'
<1>1. /\ pc[t] = "own" /\ pc' = [pc EXCEPT ![t] = "tlsf"] /\ pc'[t] = "tlsf"
      /\ pc[t] \in Locked /\ Found(t) /\ pc[t] \in CallPc
  BY DEF InitOwn, At, Goto, OInv, SInv, LocalsTyped, Locked, Found, CallPc
<1>2. Knows(t)
  BY DEF OInv, CallsKnow
<1>3. t = Maker /\ ~HasHeap(sdi[t])
  BY <1>1, <1>2 DEF Knows
<1>4. name[t] \notin {"free", "realloc"}
  BY <1>1, <1>2, <1>3, OwnerIsMaker DEF Knows, OInv
<1> QED
  BY <1>1, <1>3, <1>4, NewHeap DEF InitOwn

(* A user makes the maker's, once. *)
LEMMA InitOwnerOwned ==
  ASSUME CallsOrdered, OInv, SInv', NEW t \in Thread, InitOwner(t)
  PROVE  OInv'
<1>1. /\ pc[t] \in {"owner", "late"}
      /\ pc' = [pc EXCEPT ![t] = IF pc[t] = "owner" THEN "copy" ELSE "tlsf"]
      /\ pc'[t] = IF pc[t] = "owner" THEN "copy" ELSE "tlsf"
      /\ pc[t] \in Locked /\ Found(t) /\ pc[t] \in CallPc /\ pc[t] \notin LifePc
      /\ pc'[t] \notin LifePc
      /\ UNCHANGED <<domainVars, callVars, held>>
      /\ \A v \in Thread \ {t} : pc'[v] = pc[v]
  BY DEF InitOwner, Goto, OInv, SInv, LocalsTyped, Locked, Found, CallPc, LifePc
<1>2. Owner(t) = Maker /\ sdi[t] = udi_control[udi[t]]
  BY <1>1, OwnerIsMaker DEF OInv
<1>3. Knows(t)
  BY DEF OInv, CallsKnow
<1>4. CASE HasHeap(sdi[t])
  <2>1. UNCHANGED infoVars
    BY <1>2, <1>4 DEF InitOwner, OwnerHeap, Flag, HasHeap, KeepHeaps
  <2>2. HeldInHeap'
    BY <1>1, <2>1, HeldKept DEF callVars, localVars
  <2>3. Knows(t)'
    BY <1>1, <1>3, <1>4, <2>1
      DEF Knows, HasHeap, HeapIn, Heap, infoVars, domainVars, callVars, localVars
  <2> QED
    BY <1>1, <2>1, <2>2, <2>3, QuietCall DEF callVars, localVars
<1>5. CASE ~HasHeap(sdi[t])
  <2>1. pc[t] = "owner" /\ t # Maker /\ name[t] \notin {"free", "realloc"}
    BY <1>1, <1>2, <1>3, <1>5 DEF Knows, OInv, SInv, CallsKnow
  <2>2. MapHeap(Maker, sdi[t])
    BY <1>2, <1>5 DEF InitOwner, OwnerHeap, Flag, HasHeap
  <2>3. pc'[t] = "copy" /\ pc' = [pc EXCEPT ![t] = pc'[t]]
    BY <1>1, <2>1
  <2> QED
    BY <1>1, <1>5, <2>1, <2>2, <2>3, NewHeap
<1> QED
  BY <1>4, <1>5

(* A copy is of an entry that keeps its heap. *)
LEMMA CopyOwned ==
  ASSUME CallsOrdered, OInv, SInv', NEW t \in Thread, Copy(t)
  PROVE  OInv'
<1> USE DEF domainVars, callVars, localVars
<1>1. PICK s \in Slot : s = sdi[t]
  BY DEF OInv, SInv, LocalsTyped
<1>2. /\ pc[t] = "copy" /\ pc'[t] \in {"late", "tlsf"}
      /\ pc[t] \in Locked /\ Found(t) /\ pc[t] \in CallPc /\ pc[t] \notin LifePc
      /\ pc'[t] \notin LifePc /\ \A v \in Thread \ {t} : pc'[v] = pc[v]
      /\ UNCHANGED <<domainVars, callVars, held, mapped>>
  BY DEF Copy, At, Goto, OInv, SInv, LocalsTyped, Locked, Found, CallPc, LifePc
<1>3. Owner(t) = Maker /\ sdi[t] = udi_control[udi[t]] /\ Maker \in Thread
  BY <1>2, OwnerIsMaker DEF OInv
<1>4. Knows(t)
  BY DEF OInv, CallsKnow
<1>5. t # Maker /\ HasHeap(s)
  BY <1>1, <1>2, <1>4 DEF Knows
<1>6. /\ sdi_tlsf' = [sdi_tlsf EXCEPT ![t][s] = sdi_tlsf[Maker][s]]
      /\ sdi_init_heap_flag' = [sdi_init_heap_flag EXCEPT ![t][s] = TRUE]
      /\ sdi_tlsf \in [Thread -> [Slot -> 0 .. mapped]]
      /\ sdi_init_heap_flag \in [Thread -> [Slot -> BOOLEAN]]
  BY <1>1, <1>3 DEF Copy, SetHeap, OInv, SInv, HeapsTyped
<1>7. /\ sdi_tlsf'[Maker] = sdi_tlsf[Maker]
      /\ sdi_init_heap_flag'[Maker] = sdi_init_heap_flag[Maker]
      /\ sdi_tlsf'[t][s] = sdi_tlsf[Maker][s] /\ sdi_init_heap_flag'[t][s]
      /\ \A v \in Thread, r \in Slot : v # t \/ r # s =>
           /\ sdi_tlsf'[v][r] = sdi_tlsf[v][r]
           /\ sdi_init_heap_flag'[v][r] = sdi_init_heap_flag[v][r]
  BY <1>3, <1>5, <1>6
<1>8. SlotsUsedOnce'
  <2>1. s \in status
    BY <1>3, <1>5 DEF OInv, SlotsUsedOnce, HasHeap
  <2>2. \A v \in Thread, r \in Slot : sdi_init_heap_flag'[v][r] => r \in status
    BY <1>7, <2>1 DEF OInv, SlotsUsedOnce
  <2> QED
    BY <1>2, <2>2 DEF OInv, SlotsUsedOnce
<1>9. CopiesAgree'
  BY <1>5, <1>7 DEF OInv, CopiesAgree, HasHeap, HeapIn
<1>10. /\ pc[Maker] = "fill" <=> pc'[Maker] = "fill"
       /\ \A u : Live(u)' <=> Live(u)
  BY <1>2, <1>3, <1>5 DEF Live
<1>11. Filling' /\ DataHasHeap'
  BY <1>2, <1>7, <1>10 DEF OInv, Filling, DataHasHeap, HasHeap
<1>12. HeldInHeap' /\ LiveApart' /\ LiveNotCached' /\ CachedApart'
  BY <1>2, <1>7, <1>10
    DEF OInv, HeldInHeap, LiveApart, LiveNotCached, CachedApart, HasHeap, HeapIn
<1>13. CallsKnow'
  <2>1. Knows(t)'
    BY <1>1, <1>2, <1>4, <1>5, <1>7 DEF Knows, HasHeap, HeapIn, Heap
  <2>2. ASSUME NEW v \in Thread \ {t} PROVE Knows(v)'
    <3>1. Knows(v) /\ sdi[v] \in Slot /\ pc'[v] = pc[v]
      BY <1>2 DEF OInv, SInv, LocalsTyped, CallsKnow
    <3> QED
      BY <1>2, <1>7, <3>1 DEF Knows, HasHeap, HeapIn, Heap
  <2> QED
    BY <2>1, <2>2 DEF CallsKnow
<1> QED
  BY <1>8, <1>9, <1>11, <1>12, <1>13 DEF OInv

-----------------------------------------------------------------------------
(* The life cycle *)

(* What sdrad_init has in hand is nobody else's. *)
LEMMA InitOwned ==
  ASSUME OInv, SInv', NEW t \in Thread, NEW u \in Udi, NEW k \in Kinds, sdrad_init(t, u, k)
  PROVE  OInv'
<1>1. /\ t = Maker /\ pc[Maker] = "app" /\ pc'[Maker] = "take" /\ udi'[Maker] = u
      /\ u \notin DOMAIN udi_control
      /\ UNCHANGED <<udi_control, status, sgm_sdi_to_tdi, cache, infoVars, name, sdi, ptr, held>>
      /\ \A v \in Thread \ {Maker} : pc'[v] = pc[v] /\ udi'[v] = udi[v]
      /\ \A v \in DOMAIN udi_control : kind'[v] = kind[v]
  BY DEF sdrad_init, At, Goto, OInv, SInv, LocalsTyped, ListsTyped
<1> USE DEF infoVars
<1>2. SlotsUsedOnce' /\ CopiesAgree' /\ CachedApart' /\ Filling' /\ DataHasHeap'
  BY <1>1 DEF OInv, SlotsUsedOnce, CopiesAgree, CachedApart, Filling, DataHasHeap, HasHeap, HeapIn
<1>3. \A v : Live(v)' <=> Live(v)
  BY <1>1 DEF Live
<1>4. HeldInHeap' /\ LiveApart' /\ LiveNotCached'
  BY <1>1, <1>3 DEF OInv, HeldInHeap, LiveApart, LiveNotCached, HasHeap, HeapIn
<1>5. CallsKnow'
  <2>1. Knows(Maker)'
    BY <1>1 DEF Knows, CallPc, Locked
  <2>2. ASSUME NEW v \in Thread \ {Maker} PROVE Knows(v)'
    BY <1>1 DEF OInv, CallsKnow, Knows, HasHeap, HeapIn, Heap
  <2> QED
    BY <2>1, <2>2 DEF CallsKnow
<1> QED
  BY <1>2, <1>4, <1>5 DEF OInv

(* The slot that is taken was never used. *)
LEMMA TakeSlotOwned ==
  ASSUME OInv, SInv', NEW t \in Thread, TakeSlot(t)
  PROVE  OInv'
<1>1. PICK new \in sdrad_find_free_domain :
        /\ status' = status \cup {new}
        /\ udi_control' = [v \in DOMAIN udi_control \cup {udi[t]} |->
                             IF v = udi[t] THEN new ELSE udi_control[v]]
        /\ sdi' = [sdi EXCEPT ![t] = new]
  BY DEF TakeSlot
<1>2. new \in Slot /\ new \notin status
  BY DEF sdrad_find_free_domain
<1>3. /\ pc[t] = "take" /\ t = Maker
      /\ UNCHANGED <<cache, kind, infoVars, name, udi, ptr, held>>
  BY DEF TakeSlot, At, OInv, SInv, MakerAlone, LifePc
<1>4. /\ pc'[Maker] = "fill" /\ sdi'[Maker] = new
      /\ \A v \in Thread \ {Maker} : pc'[v] = pc[v] /\ sdi'[v] = sdi[v]
  BY <1>1, <1>3 DEF TakeSlot, Goto, OInv, SInv, LocalsTyped
<1>5. /\ udi[Maker] \in Udi /\ udi[Maker] \notin DOMAIN udi_control
      /\ DOMAIN udi_control' = DOMAIN udi_control \cup {udi[Maker]}
      /\ udi_control'[udi[Maker]] = new
      /\ \A v \in DOMAIN udi_control : udi_control'[v] = udi_control[v]
  BY <1>1, <1>3 DEF OInv, SInv, LifeListed, LifePc
<1>6. ~HasHeap(new)
  BY <1>2, SharedAssumption DEF OInv, SlotsUsedOnce, HasHeap
<1> USE DEF infoVars
<1>7. SlotsUsedOnce'
  <2>1. \A v \in Thread, s \in Slot : sdi_init_heap_flag'[v][s] => s \in status'
    BY <1>1, <1>3 DEF OInv, SlotsUsedOnce
  <2>2. \A v \in DOMAIN udi_control : udi_control[v] \in status /\ udi_control[v] # new
    BY <1>2 DEF OInv, SlotsUsedOnce
  <2>3. \A u, v \in DOMAIN udi_control : udi_control[u] = udi_control[v] => u = v
    BY DEF OInv, SlotsUsedOnce
  <2>4. \A u \in DOMAIN udi_control' : udi_control'[u] \in status'
    BY <1>1, <1>5, <2>2
  <2>5. \A u, v \in DOMAIN udi_control' : udi_control'[u] = udi_control'[v] => u = v
    BY <1>5, <2>2, <2>3
  <2> QED
    BY <2>1, <2>4, <2>5 DEF SlotsUsedOnce
<1>8. CopiesAgree' /\ CachedApart'
  BY <1>3 DEF OInv, CopiesAgree, CachedApart, HasHeap, HeapIn
<1>9. Filling'
  BY <1>3, <1>4, <1>5, <1>6 DEF Filling, HasHeap
<1>10. DataHasHeap'
  BY <1>3, <1>4, <1>5 DEF OInv, DataHasHeap, HasHeap
<1>11. \A v : Live(v)' <=> Live(v) \/ v = udi[Maker]
  BY <1>3, <1>4, <1>5 DEF Live
<1>12. HeldInHeap'
  <2>1. \A v : Live(v) => v \in DOMAIN udi_control
    BY DEF Live
  <2> QED
    BY <1>3, <1>5, <1>11, <2>1 DEF OInv, HeldInHeap, HasHeap, HeapIn
<1>13. \A v \in Udi : Live(v)' /\ HasHeap(udi_control[v])' =>
         /\ Live(v) /\ udi_control'[v] = udi_control[v] /\ HasHeap(udi_control[v])
  <2>1. \A v : Live(v) => v \in DOMAIN udi_control
    BY DEF Live
  <2> QED
    BY <1>3, <1>5, <1>6, <1>11, <2>1 DEF HasHeap
<1>14. LiveApart' /\ LiveNotCached'
  BY <1>3, <1>13 DEF OInv, LiveApart, LiveNotCached, HasHeap, HeapIn
<1>15. CallsKnow'
  <2>1. Knows(Maker)'
    BY <1>4 DEF Knows, CallPc, Locked
  <2>2. ASSUME NEW v \in Thread \ {Maker} PROVE Knows(v)'
    <3>1. Knows(v) /\ (pc[v] \in CallPc => udi[v] \in DOMAIN udi_control)
      BY DEF OInv, SInv, CallsListed, CallsKnow
    <3> QED
      BY <1>3, <1>4, <1>5, <3>1 DEF Knows, HasHeap, HeapIn, Heap
  <2> QED
    BY <2>1, <2>2 DEF CallsKnow
<1> QED
  BY <1>7, <1>8, <1>9, <1>10, <1>12, <1>14, <1>15 DEF OInv

(* What sdrad_data_domain_init and sdrad_execution_domain_init do to a slot   *)
(* that was never used: at most one heap, new or from the cache.              *)
LEMMA FillShape ==
  ASSUME OInv, NEW s \in Slot, ~HasHeap(s), NEW k \in {"EXECUTION", "DATA"},
         IF k = "DATA" THEN FillData(Maker, s) ELSE FillExecution(Maker, s)
  PROVE  /\ cache' = cache \/ (cache # <<>> /\ cache' = Tail(cache))
         /\ \A v \in Thread, r \in Slot : v # Maker \/ r # s =>
              /\ sdi_tlsf'[v][r] = sdi_tlsf[v][r]
              /\ sdi_init_heap_flag'[v][r] = sdi_init_heap_flag[v][r]
         /\ k = "DATA" => sdi_init_heap_flag'[Maker][s]
         /\ sdi_init_heap_flag'[Maker][s] =>
              /\ sdi_tlsf'[Maker][s] # NULL
              /\ \/ sdi_tlsf'[Maker][s] = mapped + 1 /\ cache' = cache
                 \/ cache # <<>> /\ sdi_tlsf'[Maker][s] = Head(cache) /\ cache' = Tail(cache)
<1>1. /\ sdi_tlsf \in [Thread -> [Slot -> 0 .. mapped]] /\ Maker \in Thread
      /\ sdi_init_heap_flag \in [Thread -> [Slot -> BOOLEAN]]
      /\ mapped \in Nat /\ mapped + 1 # NULL /\ sdi_init_heap_flag[Maker][s] = FALSE
  BY SharedAssumption DEF OInv, SInv, HeapsTyped, HasHeap, NULL
<1>2. CASE KeepHeaps /\ UNCHANGED cache /\ k # "DATA"
  BY <1>1, <1>2 DEF KeepHeaps, infoVars
<1>3. CASE MapHeap(Maker, s) /\ UNCHANGED cache
  BY <1>1, <1>3 DEF MapHeap, SetHeap
<1>4. CASE cache # <<>> /\ Head(cache) # NULL /\ SetHeap(Maker, s, Head(cache), TRUE)
             /\ cache' = Tail(cache)
  BY <1>1, <1>4 DEF SetHeap
<1>5. CASE cache # <<>> /\ cache' = Tail(cache) /\ k # "DATA"
             /\ \E heap : SetHeap(Maker, s, heap, FALSE)
  <2>1. PICK heap : SetHeap(Maker, s, heap, FALSE)
    BY <1>5
  <2>2. /\ sdi_tlsf' = [sdi_tlsf EXCEPT ![Maker][s] = heap]
        /\ sdi_init_heap_flag' = [sdi_init_heap_flag EXCEPT ![Maker][s] = FALSE]
    BY <2>1 DEF SetHeap
  <2>3. ~sdi_init_heap_flag'[Maker][s]
    BY <1>1, <2>2
  <2>4. \A v \in Thread, q \in Slot : v # Maker \/ q # s =>
          /\ sdi_tlsf'[v][q] = sdi_tlsf[v][q]
          /\ sdi_init_heap_flag'[v][q] = sdi_init_heap_flag[v][q]
    BY <1>1, <2>2
  <2> QED
    BY <1>5, <2>3, <2>4
<1>6. CASE k = "DATA"
  BY <1>1, <1>3, <1>4, <1>6 DEF FillData
<1>7. CASE k # "DATA"
  BY <1>1, <1>2, <1>5, <1>7 DEF FillExecution
<1> QED
  BY <1>6, <1>7

(* The domain's heap, if it has one, is new or leaves the cache. *)
LEMMA FillDomainOwned ==
  ASSUME OInv, SInv', NEW t \in Thread, FillDomain(t)
  PROVE  OInv'
<1>1. /\ t = Maker /\ pc[Maker] = "fill" /\ pc'[Maker] = "app"
      /\ UNCHANGED <<udi_control, status, sgm_sdi_to_tdi, kind, held>>
      /\ \A v \in Thread \ {Maker} :
           UNCHANGED <<pc[v], name[v], udi[v], sdi[v], ptr[v]>>
  <2>1. t = Maker
    BY DEF FillDomain, At, OInv, SInv, MakerAlone, LifePc
  <2> QED
    BY <2>1 DEF FillDomain, At, Leave, Goto, OInv, SInv, LocalsTyped
<1>2. PICK w \in DOMAIN udi_control, s \in Slot :
        w = udi[Maker] /\ s = sdi[Maker] /\ s = udi_control[w] /\ ~HasHeap(s)
  BY <1>1 DEF OInv, SInv, LocalsTyped, LifeListed, LifePc, Filling
<1>3. PICK k \in {"EXECUTION", "DATA"} : (k = "DATA" <=> kind[w] = "DATA") /\
        IF k = "DATA" THEN FillData(Maker, s) ELSE FillExecution(Maker, s)
  <2>1. IF kind[w] = "DATA" THEN FillData(Maker, s) ELSE FillExecution(Maker, s)
    BY <1>1, <1>2 DEF FillDomain
  <2>2. CASE kind[w] = "DATA"
    BY <2>1, <2>2
  <2>3. CASE kind[w] # "DATA"
    BY <2>1, <2>3
  <2> QED
    BY <2>2, <2>3
<1>4. /\ cache' = cache \/ (cache # <<>> /\ cache' = Tail(cache))
      /\ \A v \in Thread, r \in Slot : v # Maker \/ r # s =>
           /\ sdi_tlsf'[v][r] = sdi_tlsf[v][r]
           /\ sdi_init_heap_flag'[v][r] = sdi_init_heap_flag[v][r]
      /\ kind[w] = "DATA" => sdi_init_heap_flag'[Maker][s]
      /\ sdi_init_heap_flag'[Maker][s] =>
           /\ sdi_tlsf'[Maker][s] # NULL
           /\ \/ sdi_tlsf'[Maker][s] = mapped + 1 /\ cache' = cache
              \/ cache # <<>> /\ sdi_tlsf'[Maker][s] = Head(cache) /\ cache' = Tail(cache)
  BY <1>2, <1>3, FillShape
<1>5. Maker \in Thread /\ s \in status /\ \A v \in Thread : ~sdi_init_heap_flag[v][s]
  BY <1>2, SharedAssumption DEF OInv, SlotsUsedOnce, CopiesAgree
<1>6. \A u \in DOMAIN udi_control : u \in Udi /\ udi_control[u] \in Slot
        /\ (u # w => udi_control[u] # s)
  BY <1>2, SlotsDiffer DEF OInv, SInv, ListsTyped
<1>7. SlotsUsedOnce'
  BY <1>1, <1>4, <1>5 DEF OInv, SlotsUsedOnce
<1>8. CopiesAgree'
  <2>1. ASSUME NEW v \in Thread, NEW r \in Slot, sdi_init_heap_flag'[v][r]
        PROVE  sdi_init_heap_flag'[Maker][r] /\ sdi_tlsf'[v][r] = sdi_tlsf'[Maker][r]
    <3>1. CASE r = s
      BY <1>4, <1>5, <2>1, <3>1
    <3>2. CASE r # s
      BY <1>4, <1>5, <2>1, <3>2 DEF OInv, CopiesAgree, HasHeap, HeapIn
    <3> QED
      BY <3>1, <3>2
  <2>2. ASSUME NEW r \in Slot, sdi_init_heap_flag'[Maker][r] PROVE sdi_tlsf'[Maker][r] # NULL
    BY <1>4, <1>5, <2>2 DEF OInv, CopiesAgree, HasHeap, HeapIn
  <2> QED
    BY <2>1, <2>2 DEF CopiesAgree, HasHeap, HeapIn
<1>9. Filling'
  BY <1>1 DEF Filling
<1>10. DataHasHeap'
  <2> SUFFICES ASSUME NEW u \in DOMAIN udi_control, kind[u] = "DATA"
               PROVE  sdi_init_heap_flag'[Maker][udi_control[u]]
    BY <1>1 DEF DataHasHeap, HasHeap
  <2>1. CASE u = w
    BY <1>2, <1>4, <2>1
  <2>2. CASE u # w
    <3>1. HasHeap(udi_control[u])
      BY <1>2, <2>2 DEF OInv, DataHasHeap
    <3> QED
      BY <1>4, <1>5, <1>6, <2>2, <3>1 DEF HasHeap
  <2> QED
    BY <2>1, <2>2
<1>11. \A u : Live(u)' <=> u \in DOMAIN udi_control
  BY <1>1 DEF Live
<1>12. \A u : Live(u) <=> u \in DOMAIN udi_control
  BY <1>1 DEF Live
<1>13. HeldInHeap'
  <2> SUFFICES ASSUME NEW h \in held
               PROVE  /\ Live(h.udi)' /\ sdi_init_heap_flag'[Maker][udi_control[h.udi]]
                      /\ sdi_tlsf'[Maker][udi_control[h.udi]] = h.heap
    BY <1>1 DEF HeldInHeap, HasHeap, HeapIn
  <2>1. /\ h.udi \in DOMAIN udi_control
        /\ HasHeap(udi_control[h.udi]) /\ HeapIn(udi_control[h.udi]) = h.heap
    BY <1>12 DEF OInv, HeldInHeap
  <2>2. udi_control[h.udi] \in Slot \ {s}
    BY <1>2, <1>6, <2>1
  <2> QED
    BY <1>4, <1>5, <1>11, <2>1, <2>2 DEF HasHeap, HeapIn
<1>14. CallsKnow'
  <2>1. Knows(Maker)'
    BY <1>1 DEF Knows, CallPc, Locked
  <2>2. ASSUME NEW v \in Thread \ {Maker} PROVE Knows(v)'
    <3>1. Knows(v)
      BY DEF OInv, CallsKnow
    <3>2. ASSUME pc[v] \in CallPc PROVE udi_control[udi[v]] \in Slot \ {s}
      <4>1. udi[v] \in DOMAIN udi_control /\ udi[v] # w
        BY <1>1, <1>2, <1>5, <3>2 DEF OInv, SInv, CallsListed, LifePc
      <4> QED
        BY <1>6, <4>1
    <3>3. ASSUME Found(v) PROVE sdi[v] \in Slot \ {s}
      BY <3>2, <3>3, OwnerIsMaker DEF OInv
    <3>4. pc[v] \in CallPc /\ name[v] \in {"free", "realloc"} =>
            /\ udi_control'[udi[v]] = udi_control[udi[v]]
            /\ UNCHANGED <<HasHeap(udi_control[udi[v]]), HeapIn(udi_control[udi[v]])>>
      BY <1>1, <1>4, <1>5, <3>2 DEF HasHeap, HeapIn
    <3>5. Found(v) => UNCHANGED <<HasHeap(sdi[v]), HeapIn(sdi[v]), Heap(v)>>
      BY <1>1, <1>4, <1>5, <3>3 DEF HasHeap, HeapIn, Heap
    <3> QED
      BY <1>1, <3>1, <3>4, <3>5, KnowsKept
  <2> QED
    BY <2>1, <2>2 DEF CallsKnow
<1>15. /\ Len(cache) \in Nat /\ DOMAIN cache = 1 .. Len(cache)
       /\ \A i \in DOMAIN cache : cache[i] \in 0 .. mapped
  BY ElementOfSeq, LenProperties DEF OInv, SInv, HeapsTyped
<1>16. cache # <<>> /\ cache' = Tail(cache) =>
         /\ 1 \in DOMAIN cache /\ Head(cache) = cache[1]
         /\ \A i \in DOMAIN cache' : i \in Nat /\ i # 0 /\ i + 1 \in DOMAIN cache
                                   /\ cache'[i] = cache[i + 1]
  <2> SUFFICES ASSUME cache # <<>>, cache' = Tail(cache)
               PROVE  /\ 1 \in DOMAIN cache /\ Head(cache) = cache[1]
                      /\ \A i \in DOMAIN cache' : i \in Nat /\ i # 0
                           /\ i + 1 \in DOMAIN cache /\ cache'[i] = cache[i + 1]
    OBVIOUS
  <2>1. cache \in Seq(0 .. mapped)
    BY DEF OInv, SInv, HeapsTyped
  <2>2. /\ 1 \in DOMAIN cache /\ Head(cache) = cache[1]
        /\ cache' \in Seq(0 .. mapped) /\ Len(cache') = Len(cache) - 1
        /\ \A i \in 1 .. Len(cache) - 1 : cache'[i] = cache[i + 1]
    BY <2>1, HeadProperties
  <2>3. DOMAIN cache' = 1 .. Len(cache) - 1
    BY <2>2, LenProperties
  <2> QED
    BY <1>15, <2>2, <2>3
<1>17. \A i \in DOMAIN cache' : \E j \in DOMAIN cache : cache'[i] = cache[j]
  BY <1>4, <1>16
<1>18. CachedApart'
  <2>1. CASE cache' = cache
    BY <2>1 DEF OInv, CachedApart
  <2>2. CASE cache # <<>> /\ cache' = Tail(cache)
    <3> SUFFICES ASSUME NEW i \in DOMAIN cache', NEW j \in DOMAIN cache',
                        cache'[i] = cache'[j], cache'[i] # NULL
                 PROVE  i = j
      BY DEF CachedApart
    <3>1. i + 1 = j + 1
      BY <1>16, <2>2 DEF OInv, CachedApart
    <3> QED
      BY <1>16, <2>2, <3>1
  <2> QED
    BY <1>4, <2>1, <2>2
<1>19. ASSUME NEW u \in DOMAIN udi_control, u # w, sdi_init_heap_flag'[Maker][udi_control[u]]
       PROVE  /\ HasHeap(udi_control[u])
              /\ sdi_tlsf'[Maker][udi_control[u]] = HeapIn(udi_control[u])
              /\ HeapIn(udi_control[u]) \in 0 .. mapped
  BY <1>4, <1>5, <1>6, <1>19 DEF HasHeap, HeapIn, OInv, SInv, HeapsTyped
<1>20. mapped + 1 \notin 0 .. mapped
  BY DEF OInv, SInv, HeapsTyped
<1>21. LiveNotCached'
  <2> SUFFICES ASSUME NEW u \in DOMAIN udi_control, NEW i \in DOMAIN cache',
                      sdi_init_heap_flag'[Maker][udi_control[u]]
               PROVE  cache'[i] # sdi_tlsf'[Maker][udi_control[u]]
    BY <1>1, <1>11 DEF LiveNotCached, HasHeap, HeapIn
  <2>1. CASE u # w
    <3>1. \A j \in DOMAIN cache : cache[j] # HeapIn(udi_control[u])
      BY <1>6, <1>12, <1>19, <2>1 DEF OInv, LiveNotCached
    <3> QED
      BY <1>17, <1>19, <2>1, <3>1
  <2>2. CASE u = w /\ sdi_tlsf'[Maker][s] = mapped + 1
    BY <1>2, <1>15, <1>17, <1>20, <2>2
  <2>3. CASE u = w /\ cache # <<>> /\ sdi_tlsf'[Maker][s] = Head(cache) /\ cache' = Tail(cache)
    <3>1. cache[1] # NULL
      BY <1>2, <1>4, <1>16, <2>3
    <3>2. cache[i + 1] # cache[1]
      BY <1>16, <2>3, <3>1 DEF OInv, CachedApart
    <3> QED
      BY <1>2, <1>16, <2>3, <3>2
  <2> QED
    BY <1>2, <1>4, <2>1, <2>2, <2>3
<1>22. ASSUME NEW u \in DOMAIN udi_control, u # w, sdi_init_heap_flag'[Maker][udi_control[u]],
              sdi_init_heap_flag'[Maker][s]
       PROVE  sdi_tlsf'[Maker][udi_control[u]] # sdi_tlsf'[Maker][s]
  <2>1. CASE sdi_tlsf'[Maker][s] = mapped + 1
    BY <1>19, <1>20, <1>22, <2>1
  <2>2. CASE cache # <<>> /\ sdi_tlsf'[Maker][s] = Head(cache) /\ cache' = Tail(cache)
    <3>1. cache[1] # HeapIn(udi_control[u])
      BY <1>6, <1>12, <1>16, <1>19, <1>22, <2>2 DEF OInv, LiveNotCached
    <3> QED
      BY <1>16, <1>19, <1>22, <2>2, <3>1
  <2> QED
    BY <1>4, <1>22, <2>1, <2>2
<1>23. LiveApart'
  <2> SUFFICES ASSUME NEW u \in DOMAIN udi_control, NEW v \in DOMAIN udi_control, u # v,
                      sdi_init_heap_flag'[Maker][udi_control[u]],
                      sdi_init_heap_flag'[Maker][udi_control[v]]
               PROVE  sdi_tlsf'[Maker][udi_control[u]] # sdi_tlsf'[Maker][udi_control[v]]
    BY <1>1, <1>11 DEF LiveApart, HasHeap, HeapIn
  <2>1. CASE u = w \/ v = w
    BY <1>2, <1>22, <2>1
  <2>2. CASE u # w /\ v # w
    <3>1. HeapIn(udi_control[u]) # HeapIn(udi_control[v])
      BY <1>6, <1>12, <1>19, <2>2 DEF OInv, LiveApart
    <3> QED
      BY <1>19, <2>2, <3>1
  <2> QED
    BY <2>1, <2>2
<1> QED
  BY <1>7, <1>8, <1>9, <1>10, <1>13, <1>14, <1>18, <1>21, <1>23 DEF OInv

(* The heap that enters the cache is of a domain that is not live any more. *)
LEMMA DestroyOwned ==
  ASSUME CallsOrdered, OInv, SInv', NEW t \in Thread, NEW u \in Udi, NEW how \in Ends,
         sdrad_destroy(t, u, how)
  PROVE  OInv'
<1>1. /\ t = Maker /\ pc[Maker] = "app" /\ pc'[Maker] = "unlist" /\ udi'[Maker] = u
      /\ u \in DOMAIN udi_control /\ how = "destroy"
      /\ held' = {h \in held : h.udi # u}
      /\ UNCHANGED <<udi_control, status, kind, infoVars, name, ptr>>
      /\ \A v \in Thread \ {Maker} : pc'[v] = pc[v] /\ udi'[v] = udi[v] /\ sdi'[v] = sdi[v]
  BY DEF sdrad_destroy, At, Goto, OInv, SInv, LocalsTyped, CallsOrdered
<1>2. PICK entry : /\ cache' = <<entry>> \o cache
                   /\ entry = IF HasHeap(udi_control[u]) THEN HeapIn(udi_control[u]) ELSE NULL
  BY <1>1 DEF sdrad_destroy, HasHeap, HeapIn
<1> USE DEF infoVars
<1>3. SlotsUsedOnce' /\ CopiesAgree' /\ Filling' /\ DataHasHeap'
  BY <1>1 DEF OInv, SlotsUsedOnce, CopiesAgree, Filling, DataHasHeap, HasHeap, HeapIn
<1>4. /\ \A v : Live(v)' <=> Live(v) /\ v # u
      /\ Live(u)
  BY <1>1 DEF Live
<1>5. HeldInHeap' /\ LiveApart'
  BY <1>1, <1>4 DEF OInv, HeldInHeap, LiveApart, HasHeap, HeapIn
<1>6. /\ DOMAIN cache' = 1 .. Len(cache) + 1 /\ Len(cache) \in Nat
      /\ DOMAIN cache = 1 .. Len(cache)
      /\ \A i \in 1 .. Len(cache) + 1 : cache'[i] = IF i = 1 THEN entry ELSE cache[i - 1]
  <2>1. cache \in Seq(0 .. mapped) /\ udi_control[u] \in Slot
    BY <1>1 DEF OInv, SInv, HeapsTyped, ListsTyped
  <2>2. entry \in 0 .. mapped
    BY <1>2, <2>1, SharedAssumption DEF OInv, SInv, HeapsTyped, HeapIn, NULL
  <2> QED
    BY <1>2, <2>1, <2>2, PushProperties, LenProperties
<1>7. LiveNotCached'
  <2> SUFFICES ASSUME NEW v \in Udi, NEW i \in DOMAIN cache', Live(v), v # u,
                      HasHeap(udi_control[v])
               PROVE  cache'[i] # HeapIn(udi_control[v])
    BY <1>1, <1>4 DEF LiveNotCached, HasHeap, HeapIn
  <2>1. CASE i = 1
    <3>1. HeapIn(udi_control[v]) # NULL
      BY DEF OInv, CopiesAgree, Live, SInv, ListsTyped
    <3> QED
      BY <1>2, <1>4, <1>6, <2>1, <3>1 DEF OInv, LiveApart
  <2>2. CASE i # 1
    <3>1. i - 1 \in DOMAIN cache /\ cache'[i] = cache[i - 1]
      BY <1>6, <2>2
    <3> QED
      BY <3>1 DEF OInv, LiveNotCached
  <2> QED
    BY <2>1, <2>2
<1>8. CachedApart'
  <2>1. \A i \in DOMAIN cache : entry # NULL => cache[i] # entry
    BY <1>2, <1>4 DEF OInv, LiveNotCached
  <2> SUFFICES ASSUME NEW i \in DOMAIN cache', NEW j \in DOMAIN cache',
                      cache'[i] = cache'[j], cache'[i] # NULL
               PROVE  i = j
    BY DEF CachedApart
  <2>2. /\ i # 1 => i - 1 \in DOMAIN cache /\ cache'[i] = cache[i - 1]
        /\ j # 1 => j - 1 \in DOMAIN cache /\ cache'[j] = cache[j - 1]
        /\ i = 1 => cache'[i] = entry
        /\ j = 1 => cache'[j] = entry
    BY <1>6
  <2>3. CASE i = 1 \/ j = 1
    BY <2>1, <2>2, <2>3
  <2>4. CASE i # 1 /\ j # 1
    <3>1. i - 1 = j - 1
      BY <2>2, <2>4 DEF OInv, CachedApart
    <3> QED
      BY <1>6, <3>1
  <2> QED
    BY <2>3, <2>4
<1>9. CallsKnow'
  <2>1. Knows(Maker)'
    BY <1>1 DEF Knows, CallPc, Locked
  <2>2. ASSUME NEW v \in Thread \ {Maker} PROVE Knows(v)'
    BY <1>1 DEF OInv, CallsKnow, Knows, HasHeap, HeapIn, Heap
  <2> QED
    BY <2>1, <2>2 DEF CallsKnow
<1> QED
  BY <1>3, <1>5, <1>7, <1>8, <1>9 DEF OInv

(* Leaving the list changes no live domain. *)
LEMMA UnlistOwned ==
  ASSUME OInv, SInv', NEW t \in Thread, Unlist(t)
  PROVE  OInv'
<1>1. t = Maker
  BY DEF Unlist, At, OInv, SInv, MakerAlone, LifePc
<1>2. /\ pc[Maker] = "unlist" /\ pc'[Maker] = "app"
      /\ udi_control' = [v \in DOMAIN udi_control \ {udi[Maker]} |-> udi_control[v]]
      /\ kind' = [kind EXCEPT ![udi[Maker]] = "DATA"] /\ DOMAIN kind = Udi
      /\ UNCHANGED <<status, cache, infoVars, held>>
      /\ \A v \in Thread \ {Maker} :
           UNCHANGED <<pc[v], name[v], udi[v], sdi[v], ptr[v]>>
  BY <1>1 DEF Unlist, At, Leave, Goto, OInv, SInv, LocalsTyped, ListsTyped
<1>3. /\ DOMAIN udi_control' = DOMAIN udi_control \ {udi[Maker]}
      /\ \A v \in DOMAIN udi_control' :
           udi_control'[v] = udi_control[v] /\ kind'[v] = kind[v] /\ v \in DOMAIN udi_control
  BY <1>2 DEF OInv, SInv, ListsTyped
<1> USE DEF infoVars
<1>4. SlotsUsedOnce' /\ CopiesAgree' /\ CachedApart' /\ Filling'
  BY <1>2, <1>3 DEF OInv, SlotsUsedOnce, CopiesAgree, CachedApart, Filling, HasHeap, HeapIn
<1>5. DataHasHeap'
  BY <1>2, <1>3 DEF OInv, DataHasHeap, HasHeap
<1>6. \A v : (Live(v)' <=> Live(v)) /\ (Live(v) => udi_control'[v] = udi_control[v])
  BY <1>2, <1>3 DEF Live
<1>7. HeldInHeap' /\ LiveApart' /\ LiveNotCached'
  <2>1. HeldInHeap'
    BY <1>2, <1>6 DEF OInv, HeldInHeap, HasHeap, HeapIn
  <2>2. \A v : Live(v)' /\ HasHeap(udi_control[v])' =>
          /\ Live(v) /\ HasHeap(udi_control[v])
          /\ HeapIn(udi_control[v])' = HeapIn(udi_control[v])
    BY <1>2, <1>6 DEF HasHeap, HeapIn
  <2>3. LiveApart'
    BY <2>2 DEF OInv, LiveApart
  <2>4. LiveNotCached'
    BY <1>2, <2>2 DEF OInv, LiveNotCached
  <2> QED
    BY <2>1, <2>3, <2>4
<1>8. CallsKnow'
  <2>1. Knows(Maker)'
    BY <1>2 DEF Knows, CallPc, Locked
  <2>2. ASSUME NEW v \in Thread \ {Maker} PROVE Knows(v)'
    <3>1. Knows(v)
      BY DEF OInv, CallsKnow
    <3>2. pc[v] \in CallPc => udi[v] \in DOMAIN udi_control'
      BY <1>2, <1>3, SharedAssumption DEF OInv, SInv, CallsListed, LifePc
    <3> QED
      BY <1>2, <1>3, <3>1, <3>2 DEF Knows, HasHeap, HeapIn, Heap
  <2> QED
    BY <2>1, <2>2 DEF CallsKnow
<1> QED
  BY <1>4, <1>5, <1>7, <1>8 DEF OInv

(* At the start there are no heaps. *)
LEMMA InitOInv == Init => OInv
<1> SUFFICES ASSUME Init PROVE OInv
  OBVIOUS
<1> USE DEF Init, HasHeap, HeapIn, NULL
<1>1. SInv
  BY InitSInv
<1>2. Maker \in Thread /\ pc[Maker] = "app" /\ DOMAIN udi_control = {} /\ DOMAIN cache = {}
  BY SharedAssumption
<1>3. SlotsUsedOnce /\ CopiesAgree /\ Filling /\ DataHasHeap /\ HeldInHeap
  BY <1>2 DEF SlotsUsedOnce, CopiesAgree, Filling, DataHasHeap, HeldInHeap
<1>4. LiveApart /\ LiveNotCached /\ CachedApart
  BY <1>2 DEF LiveApart, LiveNotCached, CachedApart, Live
<1>5. CallsKnow
  BY DEF CallsKnow, Knows, CallPc, Locked
<1> QED
  BY <1>1, <1>3, <1>4, <1>5 DEF OInv

(* Every step of an application that calls in order keeps it. *)
LEMMA NextOInv ==
  ASSUME CallsOrdered, OInv, [Next]_vars
  PROVE  OInv'
<1>1. SInv'
  BY NextSInv DEF OInv
<1>2. CASE \E t \in Thread, u \in Udi, k \in Kinds : sdrad_init(t, u, k)
  BY <1>1, <1>2, InitOwned
<1>3. CASE \E t \in Thread, u \in Udi, how \in Ends : sdrad_destroy(t, u, how)
  BY <1>1, <1>3, DestroyOwned
<1>4. CASE \E t \in Thread, u \in Udi, n \in Names : Begin(t, n, u)
  BY <1>1, <1>4, BeginOwned
<1>5. CASE \E t \in Thread : TakeSlot(t) \/ FillDomain(t) \/ Unlist(t)
  BY <1>1, <1>5, TakeSlotOwned, FillDomainOwned, UnlistOwned
<1>6. CASE \E t \in Thread : CallStep(t)
  BY <1>1, <1>6, SearchOwned, LockOwned, CheckOwned, InitOwnOwned, InitOwnerOwned,
     CopyOwned, ReturnOwned DEF CallStep
<1>7. CASE \E t \in Thread : Rewind(t)
  BY <1>1, <1>7, RewindOwned
<1>8. CASE UNCHANGED vars
  BY <1>1, <1>8, StutterOwned
<1> QED
  BY <1>2, <1>3, <1>4, <1>5, <1>6, <1>7, <1>8 DEF Next

(* The invariant of an application that calls in order holds. *)
THEOREM SharedOwnersInvariance ==
  ASSUME CallsOrdered
  PROVE  Spec => []OInv
<1>1. Init => OInv
  BY InitOInv
<1>2. OInv /\ [Next]_vars => OInv'
  BY NextOInv
<1> QED
  BY <1>1, <1>2, PTL DEF Spec

(* Every call is made on the owner's heap, and the owner knows it has one,   *)
(* whoever made it and whenever the entry was copied.                        *)
THEOREM OwnersHeapUsed ==
  ASSUME CallsOrdered
  PROVE  Spec => []UsesOwnersHeap
<1>1. OInv => UsesOwnersHeap
  <2> SUFFICES ASSUME OInv, NEW t \in Thread, pc[t] = "tlsf"
               PROVE  /\ Heap(t) # NULL
                      /\ Heap(t) = sdi_tlsf[Owner(t)][sdi[t]] /\ Flag(t, Owner(t))
    BY DEF UsesOwnersHeap, At
  <2>1. Owner(t) = Maker /\ sdi[t] \in Slot
    BY OwnerIsMaker DEF OInv, Found, Locked
  <2>2. HasHeap(sdi[t]) /\ Heap(t) = HeapIn(sdi[t])
    BY DEF OInv, CallsKnow, Knows
  <2>3. HeapIn(sdi[t]) # NULL
    BY <2>1, <2>2 DEF OInv, CopiesAgree
  <2> QED
    BY <2>1, <2>2, <2>3 DEF HasHeap, HeapIn, Flag
<1> QED
  BY <1>1, SharedOwnersInvariance, PTL

(* What any thread was given of a domain is freed into the heap it is from,  *)
(* by whichever thread frees it.                                             *)
THEOREM FreesReachTheirHeap ==
  ASSUME CallsOrdered
  PROVE  Spec => []FreedWhereAllocated
<1>1. OInv => FreedWhereAllocated
  <2> SUFFICES ASSUME OInv, NEW t \in Thread, pc[t] = "tlsf", name[t] \in {"free", "realloc"}
               PROVE  Heap(t) = ptr[t]
    BY DEF FreedWhereAllocated, At
  <2>1. pc[t] \in CallPc /\ sdi[t] = udi_control[udi[t]]
    BY OwnerIsMaker DEF OInv, Found, Locked
  <2> QED
    BY <2>1 DEF OInv, CallsKnow, Knows
<1> QED
  BY <1>1, SharedOwnersInvariance, PTL

(* A heap is one domain's, or in the cache: recycling never gives one heap   *)
(* to two domains, however calls of other threads fall in between.           *)
THEOREM HeapsHaveOneOwner ==
  ASSUME CallsOrdered
  PROVE  Spec => []HeapsOwned
<1>1. OInv => HeapsOwned
  <2> SUFFICES ASSUME OInv PROVE HeapsOwned
    OBVIOUS
  <2>1. \A u \in Udi : Offered(u) =>
          /\ Live(u) /\ sgm_sdi_to_tdi[udi_control[u]] = Maker
    BY SharedAssumption DEF Offered, Live, LifePc, OInv, SInv, ListsTyped
  <2>2. \A u \in Udi, i \in DOMAIN cache : Live(u) /\ HasHeap(udi_control[u])
          => cache[i] # HeapIn(udi_control[u])
    BY DEF OInv, LiveNotCached
  <2>3. \A u, v \in Udi : Live(u) /\ Live(v) /\ u # v
            /\ HasHeap(udi_control[u]) /\ HasHeap(udi_control[v])
          => HeapIn(udi_control[u]) # HeapIn(udi_control[v])
    BY DEF OInv, LiveApart
  <2> QED
    BY <2>1, <2>2, <2>3 DEF HeapsOwned, HasHeap, HeapIn
<1> QED
  BY <1>1, SharedOwnersInvariance, PTL
=============================================================================
