------------------------------ MODULE VaBlock ------------------------------
(***************************************************************************)
(* One managed VA block (uvm8_va_block.c): which processors hold a copy of *)
(* each page, who maps it with which permission and to which copy, and how *)
(* fault servicing, migration, eviction, direct writes and the policies of *)
(* uvm8_policy.c change that while CPU and GPU threads keep accessing the  *)
(* pages through the mappings they have.                                   *)
(*                                                                         *)
(* The block lock serialises the operations, so there is one call stack.   *)
(* An element of stack is a pending call, its callees are pushed in front  *)
(* of its continuation, and a failing call unwinds to the next cleanup     *)
(* label (a call in Cleanup) the way the C code's "goto out" does.  Pushes *)
(* of one block are ordered by the block's tracker, so a push takes effect *)
(* where it is issued.                                                     *)
(*                                                                         *)
(* Every GPU is fault-capable (no UVM-Lite GPU), the VMA is writable, and  *)
(* thrashing hints are off.  A GPU chunk spans the block.                  *)
(***************************************************************************)
EXTENDS Integers, FiniteSets, Sequences, SequencesExt

CONSTANTS
  GPUs,    \* ids of the registered GPUs
  Setups   \* the machines, policies and failures to explore, see TypeSetup

CPU == 0
Procs == {CPU} \cup GPUs
NoProc == -1
Zero == -2       \* the contents of a page nobody has touched

NONE == 0
READ_ONLY == 1
READ_WRITE == 2
READ_WRITE_ATOMIC == 3

AllOperations == {"gpu_fault", "cpu_fault", "migrate", "evict", "direct_write"}
AllFailures == {"unmap", "revoke", "map", "cpu_map", "populate", "stage", "copy"}
Pairs == {{a, b} : a \in GPUs, b \in GPUs}

(* What the machine and its users can do, fixed for a behaviour.           *)
TypeSetup == [
  pages : SUBSET Nat,            \* page indices of the block
  peers : SUBSET Pairs,          \* GPUs with peer access enabled
  copyPeers : SUBSET Pairs,      \* the pairs among them with peer identity mappings
  nvlinkPeers : SUBSET Pairs,    \* the pairs among them connected by NVLink
  atomicPeers : SUBSET Pairs,    \* the pairs among them with native peer atomics
  atomicsOff : SUBSET GPUs,      \* GPUs whose system-wide atomics the user disabled
  locations : SUBSET Procs,      \* preferred locations the user may set
  accessibleBy : SUBSET Procs,   \* processors the user may name in SetAccessedBy
  readDup : SUBSET {"enabled", "disabled"},  \* policies the user may set
  prefetch : BOOLEAN,            \* whether fault servicing may prefetch pages
  operations : SUBSET AllOperations,
  failures : SUBSET AllFailures] \* calls that may fail

ASSUME VaBlockAssumption ==
  /\ IsFiniteSet(GPUs) /\ GPUs \subseteq Nat \ {CPU}
  /\ \A s \in Setups :
       /\ s \in TypeSetup /\ IsFiniteSet(s.pages)
       /\ s.copyPeers \subseteq s.peers /\ s.nvlinkPeers \subseteq s.peers
       /\ s.atomicPeers \subseteq s.peers

VARIABLES
  resident,              \* page -> processors with a valid copy
  populated,             \* page -> processors with memory for the page
  prot,                  \* page -> processor -> permission recorded in pte_bits
  target,                \* page -> processor -> copy its PTE points to
  read_duplicated_pages, \* pages with several copies
  fresh,                 \* page -> memories that hold the last value written
  read_duplication, preferred_location, accessed_by,   \* va_range policies
  deferred,              \* accessed_by_mappings_q_item is scheduled
  setup,                 \* one of Setups
  stack,                 \* calls the lock holder has yet to make
  vma,                   \* uvm_va_range_vma_current() of the lock holder
  ctx                    \* service context of the fault being serviced

block == <<resident, populated, prot, target, read_duplicated_pages, fresh>>
policy == <<read_duplication, preferred_location, accessed_by>>
vars == <<block, policy, deferred, setup, stack, vma, ctx>>

Pages == setup.pages
Peers == setup.peers
CopyPeers == setup.copyPeers
NvlinkPeers == setup.nvlinkPeers
AtomicPeers == setup.atomicPeers

-----------------------------------------------------------------------------
(* uvm8_va_space.c: what the processors of the VA space can do.            *)

accessible_from(r) == IF r = CPU THEN Procs ELSE {g \in GPUs : g = r \/ {g, r} \in Peers}
can_access(q) == {r \in Procs : q \in accessible_from(r)}
can_copy_from(r) == IF r = CPU THEN Procs ELSE {g \in GPUs : g = r \/ {g, r} \in CopyPeers}
has_native_atomics(r) == {q \in Procs : q = r \/ {q, r} \in AtomicPeers}
SystemWideAtomics == Procs \ setup.atomicsOff

(* uvm_processor_mask_find_closest_id: the id itself, then NVLink peers,   *)
(* then PCIe peers, then the first id.                                     *)
Proximity(q, r) ==
  CASE r = q -> <<0, r>>
    [] r # q /\ {q, r} \in NvlinkPeers -> <<1, r>>
    [] r # q /\ {q, r} \notin NvlinkPeers /\ q # CPU /\ r # CPU /\ {q, r} \in Peers -> <<2, r>>
    [] OTHER -> <<3, r>>
Closer(q, r, s) ==
  LET a == Proximity(q, r)
      b == Proximity(q, s)
  IN a[1] < b[1] \/ (a[1] = b[1] /\ a[2] < b[2])
ClosestIn(S, q) == IF S = {} THEN NoProc ELSE CHOOSE r \in S : \A s \in S \ {r} : Closer(q, r, s)

ById(S) == SetToSortSeq(S, <)
Calls(Op(_), S) == LET ids == ById(S) IN [i \in DOMAIN ids |-> Op(ids[i])]
Concat(Op(_), S) == FlattenSeq(Calls(Op, S))

BlockResident == UNION {resident[p] : p \in Pages}
BlockMapped == {q \in Procs : \E p \in Pages : prot[p][q] # NONE}
ResidentOn(r) == {p \in Pages : r \in resident[p]}
Authorized(p, access) == {q \in Procs : prot[p][q] >= access}
CanReadDuplicate == read_duplication = "enabled"

-----------------------------------------------------------------------------
(* The call stack of the lock holder.                                      *)

Cleanup == {"copy_out", "dup_tracker", "policy", "unlock"}
Unwind(s) ==
  LET k == CHOOSE i \in DOMAIN s : s[i].fn \in Cleanup /\ \A j \in 1 .. i - 1 : s[j].fn \notin Cleanup
  IN <<[s[k] EXCEPT !.err = TRUE]>> \o SubSeq(s, k + 1, Len(s))

Call(fn) == stack # <<>> /\ Head(stack).fn = fn
Push(calls) == stack' = calls \o Tail(stack)
Return == stack' = Tail(stack)
Fail(why) ==
  /\ why \in setup.failures
  /\ stack' = Unwind(Tail(stack))

Idle == [proc |-> NoProc, access |-> <<>>, residency |-> <<>>, dup |-> {}, prefetch |-> {},
         changed |-> {}, staged |-> {}, left |-> 0, newprot |-> <<>>]
Lock(calls, current, c) ==
  /\ stack = <<>>
  /\ stack' = calls \o <<[fn |-> "unlock", err |-> FALSE]>>
  /\ vma' = current
  /\ ctx' = c
Unlock ==
  /\ Call("unlock")
  /\ Return
  /\ vma' = FALSE /\ ctx' = Idle
  /\ UNCHANGED <<block, policy, deferred>>

SetProt(pages, q, new, r) ==
  /\ prot' = [p \in Pages |-> IF p \in pages THEN [prot[p] EXCEPT ![q] = new] ELSE prot[p]]
  /\ target' = [p \in Pages |-> IF p \in pages THEN [target[p] EXCEPT ![q] = r] ELSE target[p]]
-----------------------------------------------------------------------------
(* Mapping calls.  A call that works page by page, or copy by copy, may    *)
(* fail after it has dealt with some of them.                              *)

UnmapCall(q, mask) == [fn |-> "unmap", id |-> q, mask |-> mask]
RevokeCall(q, mask, p) == [fn |-> "revoke", id |-> q, mask |-> mask, prot |-> p]
MapCall(q, mask, p) == [fn |-> "map", id |-> q, mask |-> mask, prot |-> p]

uvm_va_block_unmap ==
  /\ Call("unmap")
  /\ LET q == Head(stack).id
         pages == {p \in Head(stack).mask : prot[p][q] # NONE}
     IN \/ /\ Return
           /\ SetProt(pages, q, NONE, NoProc)
        \/ /\ q # CPU /\ pages # {}
           /\ Fail("unmap")
           /\ UNCHANGED <<prot, target>>
  /\ UNCHANGED <<resident, populated, read_duplicated_pages, fresh, policy, deferred, vma, ctx>>

(* block_cpu_insert_page: the old PTE is gone before vm_insert_page fails, *)
(* and pte_bits keep what they said.                                       *)
CpuInsert(pages, new) ==
  \/ /\ Return
     /\ prot' = [p \in Pages |-> IF p \in pages THEN [prot[p] EXCEPT ![CPU] = new[p]] ELSE prot[p]]
     /\ target' = [p \in Pages |-> IF p \in pages THEN [target[p] EXCEPT ![CPU] = CPU] ELSE target[p]]
  \/ \E bad \in pages :
       LET done == {p \in pages : p < bad}
       IN /\ Fail("cpu_map")
          /\ prot' = [p \in Pages |-> IF p \in done THEN [prot[p] EXCEPT ![CPU] = new[p]] ELSE prot[p]]
          /\ target' = [p \in Pages |->
                          IF p \in done THEN [target[p] EXCEPT ![CPU] = CPU]
                          ELSE IF p = bad THEN [target[p] EXCEPT ![CPU] = NoProc]
                          ELSE target[p]]

(* A GPU mapping call walks the copies in order of proximity; to[p] is the *)
(* copy at which it reaches page p.                                        *)
GpuUpdate(q, pages, new, to, dest, why) ==
  \/ /\ Return
     /\ prot' = [p \in Pages |-> IF p \in pages THEN [prot[p] EXCEPT ![q] = new] ELSE prot[p]]
     /\ target' = [p \in Pages |-> IF p \in pages THEN [target[p] EXCEPT ![q] = dest[p]] ELSE target[p]]
  \/ \E bad \in {to[p] : p \in pages} :
       LET done == {p \in pages : Closer(q, to[p], bad)}
       IN /\ Fail(why)
          /\ prot' = [p \in Pages |-> IF p \in done THEN [prot[p] EXCEPT ![q] = new] ELSE prot[p]]
          /\ target' = [p \in Pages |-> IF p \in done THEN [target[p] EXCEPT ![q] = dest[p]] ELSE target[p]]

uvm_va_block_revoke_prot ==
  /\ Call("revoke")
  /\ LET q == Head(stack).id
         revoked == Head(stack).prot
         pages == {p \in Head(stack).mask : prot[p][q] >= revoked}
     IN IF q = CPU
        THEN \/ /\ revoked = READ_WRITE_ATOMIC
                /\ Return
                /\ UNCHANGED <<prot, target>>
             \/ /\ revoked # READ_WRITE_ATOMIC /\ vma
                /\ CpuInsert(pages, [p \in pages |-> READ_ONLY])
             \/ /\ revoked # READ_WRITE_ATOMIC /\ ~vma
                /\ Return
                /\ SetProt(pages, CPU, NONE, NoProc)
        ELSE GpuUpdate(q, pages, revoked - 1, [p \in pages |-> ClosestIn(resident[p], q)],
                       [p \in pages |-> target[p][q]], "revoke")
  /\ UNCHANGED <<resident, populated, read_duplicated_pages, fresh, policy, deferred, vma, ctx>>

(* map_gpu_get_allowed_destinations                                        *)
AllowedDestinations(q) ==
  (IF CanReadDuplicate \/ preferred_location = q THEN {q} ELSE Procs)
    \cap BlockResident \cap can_access(q)

CpuProt(new) == IF new = READ_WRITE THEN READ_WRITE_ATOMIC ELSE new

uvm_va_block_map ==
  /\ Call("map")
  /\ LET q == Head(stack).id
         new == Head(stack).prot
         mask == Head(stack).mask
         to == [p \in mask |-> ClosestIn(AllowedDestinations(q) \cap resident[p], q)]
     IN IF q = CPU
        THEN IF vma
             THEN CpuInsert({p \in mask : prot[p][CPU] < CpuProt(new)}, [p \in mask |-> CpuProt(new)])
             ELSE Return /\ UNCHANGED <<prot, target>>
        ELSE GpuUpdate(q, {p \in mask : to[p] # NoProc /\ prot[p][q] < new}, new, to, to, "map")
  /\ UNCHANGED <<resident, populated, read_duplicated_pages, fresh, policy, deferred, vma, ctx>>

(* block_map_cpu_page with force_remap, which the fault path uses.         *)
remap_cpu ==
  /\ Call("remap_cpu")
  /\ LET new == CpuProt(Head(stack).prot)
     IN CpuInsert(Head(stack).mask, [p \in Pages |-> IF prot[p][CPU] > new THEN prot[p][CPU] ELSE new])
  /\ UNCHANGED <<resident, populated, read_duplicated_pages, fresh, policy, deferred, vma, ctx>>

-----------------------------------------------------------------------------
(* Populating and copying.                                                 *)

(* New memory holds the page's value only if it was zeroed for a page that *)
(* nobody has touched.                                                     *)
Allocate(pages, q) ==
  /\ populated' = [p \in Pages |-> IF p \in pages THEN populated[p] \cup {q} ELSE populated[p]]
  /\ fresh' = [p \in Pages |->
                 IF p \notin pages THEN fresh[p]
                 ELSE IF resident[p] = {} /\ Zero \in fresh[p] THEN fresh[p] \cup {q}
                 ELSE fresh[p] \ {q}]

block_populate_pages ==
  /\ Call("populate")
  /\ LET q == Head(stack).id
         wanted == {p \in Head(stack).mask : q \notin resident[p] /\ q \notin populated[p]}
         new == IF q = CPU THEN wanted
                ELSE IF wanted = {} THEN {} ELSE {p \in Pages : q \notin populated[p]}
     IN \/ /\ Return
           /\ Allocate(new, q)
        \/ \E bad \in new :
             /\ Fail("populate")
             /\ Allocate(IF q = CPU THEN {p \in new : p < bad} ELSE {}, q)
  /\ UNCHANGED <<resident, prot, target, read_duplicated_pages, policy, deferred, vma, ctx>>

Between(dst, src, mask, mode, stage) ==
  [fn |-> "copy_between", dst |-> dst, src |-> src, mask |-> mask, mode |-> mode, stage |-> stage]

(* Which of the copies of block_copy_resident_pages a call is: "direct" to *)
(* the destination and "to" the staging area in loops over the sources     *)
(* that end after ctx.left pages, "from" the staging area, and the "rest". *)
InLoop(stage) == stage \in {"direct", "to"}

(* block_copy_resident_pages_between                                       *)
CopyPages(done, dst, src, mode, stage) ==
  /\ resident' = [p \in Pages |->
        IF p \notin done THEN resident[p]
        ELSE (resident[p] \cup {dst}) \ (IF mode = "MOVE" /\ stage = "from" THEN {src} ELSE {})]
  /\ fresh' = [p \in Pages |->
        IF p \notin done THEN fresh[p]
        ELSE IF src \in fresh[p] THEN fresh[p] \cup {dst} ELSE fresh[p] \ {dst}]
  /\ read_duplicated_pages' = read_duplicated_pages \cup (IF mode = "COPY" /\ stage # "to" THEN done ELSE {})
  /\ ctx' = [ctx EXCEPT
        !.staged = IF stage = "to" THEN @ \cup done ELSE @,
        !.changed = IF stage = "to" THEN @ ELSE @ \cup done,
        !.left = IF InLoop(stage) THEN @ - Cardinality(done) ELSE @]

PopulateCpu(pages, dst) ==
  populated' = [p \in Pages |-> IF p \in pages /\ dst = CPU THEN populated[p] \cup {CPU} ELSE populated[p]]

block_copy_resident_pages_between ==
  /\ Call("copy_between")
  /\ LET c == Head(stack)
         mask == IF c.stage = "from" THEN ctx.staged ELSE c.mask
         pages == IF InLoop(c.stage) /\ ctx.left = 0 THEN {}
                  ELSE {p \in mask : c.src \in resident[p] /\ c.dst \notin resident[p]}
     IN \/ /\ Return
           /\ CopyPages(pages, c.dst, c.src, c.mode, c.stage)
           /\ PopulateCpu(pages, c.dst)
        \/ \E bad \in pages :
             /\ c.dst = CPU /\ CPU \notin populated[bad]
             /\ Fail("stage")
             /\ CopyPages({p \in pages : p < bad}, c.dst, c.src, c.mode, c.stage)
             /\ PopulateCpu({p \in pages : p < bad}, c.dst)
        \/ \E bad \in pages :
             /\ \A p \in pages : bad <= p
             /\ Fail("copy")
             /\ PopulateCpu({bad}, c.dst)
             /\ UNCHANGED <<resident, fresh, read_duplicated_pages, ctx>>
  /\ UNCHANGED <<prot, target, policy, deferred, vma>>

CopyCall(dst, mask, mode, alias) == [fn |-> "copy", dst |-> dst, mask |-> mask, mode |-> mode, alias |-> alias]

(* block_copy_resident_pages: copies from the memories the destination can *)
(* copy from, then the staged copies through the CPU, then from the CPU.   *)
block_copy_resident_pages ==
  /\ Call("copy")
  /\ LET c == Head(stack)
         srcs == IF c.dst = CPU THEN GPUs \cap BlockResident
                 ELSE (can_copy_from(c.dst) \cap BlockResident) \ {c.dst}
         direct == Calls(LAMBDA s : Between(c.dst, s, c.mask, c.mode, "direct"), srcs)
         out == <<[fn |-> "copy_out", dst |-> c.dst, mask |-> c.mask, mode |-> c.mode, alias |-> c.alias, err |-> FALSE]>>
     IN IF c.mask \subseteq ResidentOn(c.dst) THEN Push(out)
        ELSE IF c.dst = CPU THEN Push(direct \o out)
        ELSE Push(direct \o <<[fn |-> "stage", dst |-> c.dst, mask |-> c.mask, mode |-> c.mode, direct |-> srcs]>> \o out)
  /\ ctx' = [ctx EXCEPT !.staged = {}, !.left = Cardinality(Head(stack).mask \ ResidentOn(Head(stack).dst))]
  /\ UNCHANGED <<block, policy, deferred, vma>>

\* Mutant: the pages that are resident on the CPU are not copied.
StageOnly ==
  /\ Call("stage")
  /\ LET c == Head(stack)
         srcs == BlockResident \ (c.direct \cup {c.dst, CPU})
     IN IF c.mask \subseteq ResidentOn(c.dst) THEN Return
        ELSE Push(Calls(LAMBDA s : Between(CPU, s, c.mask, c.mode, "to"), srcs)
                  \o <<Between(c.dst, CPU, {}, c.mode, "from")>>)
  /\ UNCHANGED <<block, policy, deferred, vma, ctx>>

stage_copies ==
  /\ Call("stage")
  /\ LET c == Head(stack)
         srcs == BlockResident \ (c.direct \cup {c.dst, CPU})
     IN IF c.mask \subseteq ResidentOn(c.dst) THEN Return
        ELSE Push(Calls(LAMBDA s : Between(CPU, s, c.mask, c.mode, "to"), srcs)
                  \o <<Between(c.dst, CPU, {}, c.mode, "from"), Between(c.dst, CPU, c.mask, c.mode, "rest")>>)
  /\ UNCHANGED <<block, policy, deferred, vma, ctx>>

BreakReadDuplication(p, dst) == resident[p] \cap {dst}

(* The out: label of block_copy_resident_pages: break_read_duplication_in_ *)
(* region, then first touch.  When the caller passed read_duplicated_pages *)
(* itself as the mask, the mask is empty by the time first touch reads it. *)
block_copy_resident_pages_out ==
  /\ Call("copy_out")
  /\ LET c == Head(stack)
         moved == IF c.mode = "MOVE" THEN c.mask ELSE {}
         touched == IF c.alias THEN {} ELSE c.mask \ ResidentOn(c.dst)
     IN /\ read_duplicated_pages' = read_duplicated_pages \ moved
        /\ resident' = [p \in Pages |->
              (IF p \in moved THEN BreakReadDuplication(p, c.dst) ELSE resident[p])
                \cup (IF p \in touched THEN {c.dst} ELSE {})]
        /\ ctx' = [ctx EXCEPT !.changed = @ \cup touched]
        /\ stack' = IF c.err THEN Unwind(Tail(stack)) ELSE Tail(stack)
  /\ UNCHANGED <<populated, prot, target, fresh, policy, deferred, vma>>

-----------------------------------------------------------------------------
(* Changing residency.                                                     *)

MakeResidentCall(dst, mask, alias) == [fn |-> "make_resident", dst |-> dst, mask |-> mask, alias |-> alias]
ReadDuplicateCall(dst, mask) == [fn |-> "read_duplicate", dst |-> dst, mask |-> mask]
PopulateCall(q, mask) == [fn |-> "populate", id |-> q, mask |-> mask]

uvm_va_block_make_resident ==
  /\ Call("make_resident")
  /\ LET c == Head(stack)
         moving == c.mask \ ResidentOn(c.dst)
     IN Push(Calls(LAMBDA q : UnmapCall(q, moving), BlockMapped)
             \o Calls(LAMBDA q : UnmapCall(q, c.mask \cap read_duplicated_pages), BlockMapped \ {c.dst})
             \o <<PopulateCall(c.dst, c.mask), CopyCall(c.dst, c.mask, "MOVE", c.alias)>>)
  /\ UNCHANGED <<block, policy, deferred, vma, ctx>>

uvm_va_block_make_resident_read_duplicate ==
  /\ Call("read_duplicate")
  /\ LET c == Head(stack)
         entering(src) == (c.mask \ read_duplicated_pages) \cap ResidentOn(src)
         quiesce(src) ==
           Calls(LAMBDA q : UnmapCall(q, entering(src)), BlockMapped \ {src})
             \o <<RevokeCall(src, entering(src), READ_WRITE)>>
     IN Push(Concat(quiesce, {src \in BlockResident : entering(src) # {}})
             \o <<[fn |-> "dup_tracker", err |-> FALSE], PopulateCall(c.dst, c.mask),
                  CopyCall(c.dst, c.mask, "COPY", FALSE)>>)
  /\ UNCHANGED <<block, policy, deferred, vma, ctx>>

(* The loop's status is overwritten by that of uvm_tracker_add_tracker_safe. *)
dup_tracker ==
  /\ Call("dup_tracker")
  /\ Return
  /\ UNCHANGED <<block, policy, deferred, vma, ctx>>

-----------------------------------------------------------------------------
(* Mappings for processors other than the one that faulted or migrated.    *)

(* uvm_va_block_add_mappings_after_migration                               *)
MappingsAfterMigration(r, q, mask, max) ==
  LET pages == IF read_duplication = "unset" THEN mask \ read_duplicated_pages ELSE mask
      others == (accessed_by \cap accessible_from(r))
                  \ ({q} \cup (IF preferred_location # r THEN {preferred_location} ELSE {}))
      native == has_native_atomics(r)
      atomic == IF max = READ_WRITE_ATOMIC /\ q \in native THEN others \cap native ELSE {}
      new == CASE max # READ_WRITE_ATOMIC -> max
               [] max = READ_WRITE_ATOMIC /\ (q \in native \/ q = CPU) -> READ_WRITE
               [] OTHER -> READ_ONLY
      final(id) == IF new = READ_WRITE /\ id \notin SystemWideAtomics THEN READ_WRITE_ATOMIC ELSE new
  IN IF CanReadDuplicate \/ pages = {} THEN <<>>
     ELSE Calls(LAMBDA id : MapCall(id, pages, READ_WRITE_ATOMIC), atomic)
          \o Calls(LAMBDA id : MapCall(id, pages, final(id)), others \ atomic)

(* block_page_compute_highest_permission                                   *)
HighestPermission(p, q) ==
  IF resident[p] = {} THEN NONE
  ELSE IF Cardinality(resident[p]) > 1
  THEN IF q \in resident[p] THEN READ_ONLY ELSE NONE
  ELSE LET r == CHOOSE r \in resident[p] : TRUE
           atomic == Authorized(p, READ_WRITE_ATOMIC) \ {q}
           first == CHOOSE id \in atomic : \A o \in atomic : id <= o
       IN IF q \notin accessible_from(r) THEN NONE
          ELSE IF atomic # {} /\ first \notin has_native_atomics(r) THEN READ_ONLY
          ELSE IF q \in has_native_atomics(r) \/ Authorized(p, READ_WRITE) \ {q} = {} THEN READ_WRITE_ATOMIC
          ELSE READ_WRITE

AddMappingsCall(q) == [fn |-> "add_mappings", id |-> q]

uvm_va_block_add_mappings ==
  /\ Call("add_mappings")
  /\ LET q == Head(stack).id
     IN Push(Calls(LAMBDA p : MapCall(q, {p}, HighestPermission(p, q)),
                   {p \in Pages \ read_duplicated_pages : HighestPermission(p, q) # NONE}))
  /\ UNCHANGED <<block, policy, deferred, vma, ctx>>

-----------------------------------------------------------------------------
(* Fault servicing.                                                        *)

AccessTypes == {"atomic", "write", "read"}
AccessProt(a) ==
  CASE a = "atomic" -> READ_WRITE_ATOMIC
    [] a = "write" -> READ_WRITE
    [] OTHER -> READ_ONLY

CanDuplicatePage(p) == CanReadDuplicate \/ (read_duplication # "disabled" /\ p \in read_duplicated_pages)

ReadDuplicateFault(p, a) == a \in {"read", "prefetch"} /\ CanDuplicatePage(p)

(* uvm_va_block_select_residency_after_fault                               *)
SelectResidency(p, q, a) ==
  LET closest == ClosestIn(resident[p], q)
  IN IF q = CPU \/ ReadDuplicateFault(p, a) \/ q = preferred_location THEN q
     ELSE IF closest # NoProc /\ a = "atomic" /\ q \in has_native_atomics(closest) THEN closest
     ELSE IF closest # NoProc /\ closest = preferred_location /\ q \in accessible_from(preferred_location)
     THEN preferred_location
     ELSE q

(* uvm_va_block_compute_new_permission_after_fault                         *)
NewPermission(p, q, r, a) ==
  LET asked == AccessProt(a)
      upgrade == /\ asked = READ_ONLY
                 /\ \/ read_duplication = "disabled"
                    \/ read_duplication = "unset" /\ p \notin read_duplicated_pages
                 /\ Authorized(p, READ_WRITE_ATOMIC) \subseteq has_native_atomics(r)
      new == IF upgrade THEN READ_WRITE ELSE asked
  IN IF new = READ_WRITE /\ q \in has_native_atomics(r) THEN READ_WRITE_ATOMIC ELSE new

Serviced(c) == DOMAIN c.access
ServicedAt(c, r) == {p \in Serviced(c) : c.residency[p] = r}

ServiceCalls(c) ==
  Concat(LAMBDA r : <<[fn |-> "service_migrate", id |-> r], [fn |-> "service_revoke", id |-> r]>>,
         {c.residency[p] : p \in Serviced(c)})
    \o <<[fn |-> "service_map"]>>

(* The faults of one processor on the block, with the pages a prefetch     *)
(* hint adds when every fault has the same new residency.                  *)
FaultContext(q, faults, extra) ==
  LET residency(p) == SelectResidency(p, q, faults[p])
      all == DOMAIN faults \cup extra
      where == {residency(p) : p \in DOMAIN faults}
  IN [Idle EXCEPT
        !.proc = q,
        !.access = [p \in all |-> IF p \in extra THEN "prefetch" ELSE faults[p]],
        !.residency = [p \in all |-> IF p \in extra THEN CHOOSE r \in where : TRUE ELSE residency(p)],
        !.dup = {p \in DOMAIN faults : ReadDuplicateFault(p, faults[p])} \cup {p \in extra : CanDuplicatePage(p)},
        !.prefetch = extra]

Service(q, faults, current) ==
  \E extra \in SUBSET (Pages \ DOMAIN faults) :
    /\ extra # {} =>
         setup.prefetch /\ Cardinality({SelectResidency(p, q, faults[p]) : p \in DOMAIN faults}) = 1
    /\ LET c == FaultContext(q, faults, extra) IN Lock(ServiceCalls(c), current, c)
    /\ UNCHANGED <<block, policy, deferred>>

(* service_fault_batch_block_locked, on the faults not already authorized. *)
GpuFault(g, faults) ==
  /\ "gpu_fault" \in setup.operations
  /\ \A p \in DOMAIN faults : g \notin Authorized(p, AccessProt(faults[p]))
  /\ Service(g, faults, FALSE)

(* uvm_va_block_cpu_fault: the kernel may drop a PTE at any time.          *)
CpuFault(p, a) ==
  /\ "cpu_fault" \in setup.operations
  /\ Service(CPU, [x \in {p} |-> a], TRUE)

service_migrate ==
  /\ Call("service_migrate")
  /\ LET r == Head(stack).id
         faulted == ServicedAt(ctx, r) \ ctx.prefetch
         If(cond, call) == IF cond THEN <<call>> ELSE <<>>
     IN Push((IF ctx.dup = {} THEN <<MakeResidentCall(r, faulted, FALSE)>>
              ELSE If(faulted \ ctx.dup # {}, MakeResidentCall(r, faulted \ ctx.dup, FALSE))
                   \o If(faulted \cap ctx.dup # {}, ReadDuplicateCall(r, faulted \cap ctx.dup)))
             \o If(ctx.prefetch # {},
                   IF ctx.dup = {} THEN MakeResidentCall(r, ctx.prefetch, FALSE)
                   ELSE ReadDuplicateCall(r, ctx.prefetch)))
  /\ ctx' = [ctx EXCEPT !.changed = {}]
  /\ UNCHANGED <<block, policy, deferred, vma>>

\* Mutant: processors with native atomics on the copy keep their permission.
KeepNative(q, r, new) == (BlockMapped \ {q}) \ has_native_atomics(r)

(* Permissions to revoke from other processors before q is mapped with new *)
(* on pages that stayed at r.                                              *)
RevokedFrom(q, r, new) ==
  LET others == BlockMapped \ {q}
      native == has_native_atomics(r)
  IN IF new = READ_WRITE \/ q \notin SystemWideAtomics THEN (others \ native) \cap SystemWideAtomics
     ELSE IF q \in native THEN others \ native
     ELSE others
RevokedProt(q, new) == IF q # CPU /\ new = READ_WRITE_ATOMIC THEN READ_WRITE ELSE READ_WRITE_ATOMIC

service_revoke ==
  /\ Call("service_revoke")
  /\ LET r == Head(stack).id
         q == ctx.proc
         new(p) == NewPermission(p, q, r, ctx.access[p])
         stayed(np) == {p \in ServicedAt(ctx, r) \ ctx.changed : new(p) = np}
         revoke(np) == IF stayed(np) = {} THEN <<>>
                       ELSE Calls(LAMBDA id : RevokeCall(id, stayed(np), RevokedProt(q, np)), RevokedFrom(q, r, np))
     IN /\ Push(revoke(READ_WRITE) \o revoke(READ_WRITE_ATOMIC))
        /\ ctx' = [ctx EXCEPT !.newprot =
                     [p \in DOMAIN @ \cup ServicedAt(ctx, r) |-> IF p \in DOMAIN @ THEN @[p] ELSE new(p)]]
  /\ UNCHANGED <<block, policy, deferred, vma>>

service_map ==
  /\ Call("service_map")
  /\ LET q == ctx.proc
         Prots == {READ_ONLY, READ_WRITE, READ_WRITE_ATOMIC}
         with(np) == {p \in Serviced(ctx) : ctx.newprot[p] = np}
         own(np) == IF q = CPU THEN [fn |-> "remap_cpu", mask |-> with(np), prot |-> np]
                    ELSE MapCall(q, with(np), np)
         others(r) == Concat(LAMBDA np : MappingsAfterMigration(r, q, with(np) \cap ServicedAt(ctx, r), np), Prots)
     IN Push(Calls(own, {np \in Prots : with(np) # {}})
             \o Concat(others, {ctx.residency[p] : p \in Serviced(ctx)}))
  /\ UNCHANGED <<block, policy, deferred, vma, ctx>>

-----------------------------------------------------------------------------
(* Operations on the block other than fault servicing.                     *)

Regions == {S \in SUBSET Pages \ {{}} : \A a, b \in S, p \in Pages : a <= p /\ p <= b => p \in S}

(* uvm_va_block_migrate_locked                                             *)
Migrate(dst, region) ==
  /\ "migrate" \in setup.operations
  /\ LET new == IF CanReadDuplicate THEN READ_ONLY ELSE READ_WRITE_ATOMIC
     IN Lock(<<IF CanReadDuplicate THEN ReadDuplicateCall(dst, region) ELSE MakeResidentCall(dst, region, FALSE),
               [fn |-> "migrate_map", id |-> dst, mask |-> region, prot |-> new]>>,
             TRUE, Idle)
  /\ UNCHANGED <<block, policy, deferred>>

migrate_map ==
  /\ Call("migrate_map")
  /\ LET c == Head(stack)
         mask == IF c.id = CPU THEN c.mask \cap ResidentOn(CPU) ELSE c.mask
     IN Push(<<MapCall(c.id, mask, c.prot)>> \o MappingsAfterMigration(c.id, c.id, c.mask, READ_WRITE_ATOMIC))
  /\ UNCHANGED <<block, policy, deferred, vma, ctx>>

(* uvm_va_block_evict_chunks, called by the PMM of the GPU for the chunk   *)
(* of this block from whichever thread needs memory.                       *)
Evict(g, current) ==
  /\ "evict" \in setup.operations
  /\ \E p \in Pages : g \in populated[p]
  /\ Lock(<<MakeResidentCall(CPU, ResidentOn(g), FALSE), [fn |-> "evict_free", id |-> g]>>, current, Idle)
  /\ UNCHANGED <<block, policy, deferred>>

evict_free ==
  /\ Call("evict_free")
  /\ Return
  /\ LET g == Head(stack).id
     IN /\ populated' = [p \in Pages |-> populated[p] \ {g}]
        /\ fresh' = [p \in Pages |-> fresh[p] \ {g}]
  /\ deferred' = deferred \cup (accessed_by \cap GPUs)
  /\ UNCHANGED <<resident, prot, target, read_duplicated_pages, policy, vma, ctx>>

(* block_deferred_accessed_by: the block lock is taken once per GPU.       *)
DeferredAccessedBy ==
  /\ deferred # {}
  /\ LET g == CHOOSE g \in deferred : \A o \in deferred : g <= o
     IN /\ deferred' = deferred \ {g}
        /\ Lock(IF CanReadDuplicate \/ g \notin accessed_by THEN <<>> ELSE <<AddMappingsCall(g)>>, FALSE, Idle)
  /\ UNCHANGED <<block, policy>>

(* uvm_va_block_write_from_cpu, the direct write of the tools interface.   *)
DirectWrite(p) ==
  /\ "direct_write" \in setup.operations
  /\ LET r == IF resident[p] = {} THEN CPU ELSE ClosestIn(resident[p], CPU)
     IN Lock(<<MakeResidentCall(r, {p}, FALSE), [fn |-> "direct_write", id |-> r, mask |-> {p}]>>, TRUE, Idle)
  /\ UNCHANGED <<block, policy, deferred>>

direct_write ==
  /\ Call("direct_write")
  /\ Return
  /\ fresh' = [p \in Pages |-> IF p \in Head(stack).mask THEN {Head(stack).id} ELSE fresh[p]]
  /\ UNCHANGED <<resident, populated, prot, target, read_duplicated_pages, policy, deferred, vma, ctx>>

-----------------------------------------------------------------------------
(* Policies (uvm8_policy.c, uvm8_va_range.c).                              *)

PolicyCall(v) == [fn |-> "policy", value |-> v, err |-> FALSE]

SetReadDuplication ==
  /\ "enabled" \in setup.readDup /\ read_duplication # "enabled"
  /\ Lock(Calls(LAMBDA r : ReadDuplicateCall(r, ResidentOn(r)), BlockResident) \o <<PolicyCall("enabled")>>, TRUE, Idle)
  /\ UNCHANGED <<block, policy, deferred>>

(* va_block_unset_read_duplication_locked: keep the preferred location's   *)
(* copy if it has one, else the first processor's.                         *)
UnsetReadDuplication ==
  /\ "disabled" \in setup.readDup /\ read_duplication # "disabled"
  /\ Lock((IF preferred_location # NoProc /\ read_duplicated_pages \cap ResidentOn(preferred_location) # {}
           THEN <<MakeResidentCall(preferred_location, read_duplicated_pages, TRUE)>> ELSE <<>>)
          \o Calls(LAMBDA r : [fn |-> "unduplicate", id |-> r], BlockResident \ {preferred_location})
          \o Calls(AddMappingsCall, accessed_by)
          \o <<PolicyCall("disabled")>>, TRUE, Idle)
  /\ UNCHANGED <<block, policy, deferred>>

unduplicate ==
  /\ Call("unduplicate")
  /\ LET r == Head(stack).id
         pages == read_duplicated_pages \cap ResidentOn(r)
     IN IF pages = {} THEN Return ELSE Push(<<MakeResidentCall(r, pages, FALSE)>>)
  /\ UNCHANGED <<block, policy, deferred, vma, ctx>>

(* read_duplication_set: enabling stops at an error, disabling ignores it. *)
set_policy ==
  /\ Call("policy")
  /\ Return
  /\ read_duplication' = IF Head(stack).err /\ Head(stack).value = "enabled" THEN read_duplication
                         ELSE Head(stack).value
  /\ UNCHANGED <<block, preferred_location, accessed_by, deferred, vma, ctx>>

SetAccessedBy(q) ==
  /\ accessed_by' = accessed_by \cup {q}
  /\ Lock(IF CanReadDuplicate THEN <<>> ELSE <<AddMappingsCall(q)>>, TRUE, Idle)
  /\ UNCHANGED <<block, read_duplication, preferred_location, deferred>>

UnsetAccessedBy(q) ==
  /\ stack = <<>> /\ q \in accessed_by
  /\ accessed_by' = accessed_by \ {q}
  /\ UNCHANGED <<block, read_duplication, preferred_location, deferred, stack, vma, ctx>>

SetPreferredLocation(r) ==
  /\ stack = <<>> /\ preferred_location # r
  /\ preferred_location' = r
  /\ UNCHANGED <<block, read_duplication, accessed_by, deferred, stack, vma, ctx>>

-----------------------------------------------------------------------------
(* A thread of processor q stores to page p through q's PTE, at any time.  *)
UserWrite(q, p) ==
  /\ prot[p][q] >= READ_WRITE /\ target[p][q] # NoProc
  /\ fresh' = [fresh EXCEPT ![p] = {target[p][q]}]
  /\ UNCHANGED <<resident, populated, prot, target, read_duplicated_pages, policy, deferred, stack, vma, ctx>>

Init ==
  /\ setup \in Setups
  /\ resident = [p \in Pages |-> {}]
  /\ populated = [p \in Pages |-> {}]
  /\ prot = [p \in Pages |-> [q \in Procs |-> NONE]]
  /\ target = [p \in Pages |-> [q \in Procs |-> NoProc]]
  /\ read_duplicated_pages = {}
  /\ fresh = [p \in Pages |-> {Zero}]
  /\ read_duplication = "unset" /\ preferred_location = NoProc /\ accessed_by = {}
  /\ deferred = {}
  /\ stack = <<>> /\ vma = FALSE /\ ctx = Idle

(* The next call of the thread that holds the block lock.                  *)
Step ==
  \/ uvm_va_block_unmap \/ uvm_va_block_revoke_prot \/ uvm_va_block_map \/ remap_cpu
  \/ block_populate_pages
  \/ block_copy_resident_pages \/ block_copy_resident_pages_between \/ stage_copies
  \/ block_copy_resident_pages_out
  \/ uvm_va_block_make_resident \/ uvm_va_block_make_resident_read_duplicate \/ dup_tracker
  \/ uvm_va_block_add_mappings
  \/ service_migrate \/ service_revoke \/ service_map
  \/ migrate_map \/ evict_free \/ direct_write \/ unduplicate \/ set_policy
  \/ Unlock

Operation ==
  \/ \E g \in GPUs, S \in SUBSET Pages \ {{}} : \E faults \in [S -> AccessTypes] : GpuFault(g, faults)
  \/ \E p \in Pages, a \in {"atomic", "read"} : CpuFault(p, a)
  \/ \E dst \in Procs, region \in Regions : Migrate(dst, region)
  \/ \E g \in GPUs, current \in BOOLEAN : Evict(g, current)
  \/ \E p \in Pages : DirectWrite(p)
  \/ DeferredAccessedBy
  \/ SetReadDuplication
  \/ UnsetReadDuplication
  \/ \E q \in setup.accessibleBy : SetAccessedBy(q) \/ UnsetAccessedBy(q)
  \/ \E r \in setup.locations \cup {NoProc} : SetPreferredLocation(r)

Next ==
  /\ Step \/ Operation \/ \E q \in Procs, p \in Pages : UserWrite(q, p)
  /\ UNCHANGED setup

Spec == Init /\ [][Next]_vars

-----------------------------------------------------------------------------
(* Type invariant. *)
TypeOK ==
  /\ resident \in [Pages -> SUBSET Procs]
  /\ populated \in [Pages -> SUBSET Procs]
  /\ prot \in [Pages -> [Procs -> NONE .. READ_WRITE_ATOMIC]]
  /\ target \in [Pages -> [Procs -> Procs \cup {NoProc}]]
  /\ read_duplicated_pages \subseteq Pages
  /\ fresh \in [Pages -> SUBSET (Procs \cup {Zero})]
  /\ read_duplication \in {"unset", "enabled", "disabled"}
  /\ preferred_location \in Procs \cup {NoProc}
  /\ accessed_by \subseteq Procs /\ deferred \subseteq GPUs
  /\ vma \in BOOLEAN

(* A copy that fails can lose data: block_copy_resident_pages marks its    *)
(* pages resident at the destination all the same.  What follows about     *)
(* data is said of setups in which copies succeed.                         *)
CopiesSucceed == setup.failures \cap {"stage", "copy"} = {}

(* The variables have their types, and the last value stored to a page is  *)
(* never lost: every copy recorded as resident holds it, and a page        *)
(* recorded as resident nowhere still reads as zero                        *)
(* (block_copy_resident_pages, block_populate_pages).                      *)
DataPreserved ==
  TypeOK /\ (CopiesSucceed =>
    \A p \in Pages :
      /\ resident[p] \subseteq fresh[p]
      /\ resident[p] = {} => Zero \in fresh[p])

(* No processor can load an old value: the memory behind every PTE holds   *)
(* the page's last value, whoever stored it, and is still allocated to the *)
(* block and accessible to that processor (block_check_mappings_page).     *)
MappingsCoherent ==
  CopiesSucceed =>
    \A p \in Pages, q \in Procs :
      prot[p][q] # NONE /\ target[p][q] # NoProc =>
        /\ target[p][q] \in resident[p] \cap fresh[p] \cap populated[p]
        /\ q \in accessible_from(target[p][q])

WritableMeansOneCopy ==
  \A p \in Pages :
    /\ Authorized(p, READ_WRITE) # {} => Cardinality(resident[p]) = 1
    /\ Cardinality(resident[p]) > 1 => Authorized(p, READ_ONLY) \subseteq resident[p]

(* Read duplication is recorded, exclusive and revoked: a page with a      *)
(* writable mapping has one copy, the copies of a read-duplicated page are *)
(* mapped only by their owners (block_check_mappings_page), and between    *)
(* operations read_duplicated_pages is exactly the set of pages with       *)
(* several copies, all of them backed by memory.                           *)
DuplicationRecorded ==
  /\ WritableMeansOneCopy
  /\ stack = <<>> =>
       /\ read_duplicated_pages = {p \in Pages : Cardinality(resident[p]) > 1}
       /\ \A p \in Pages : resident[p] \subseteq populated[p]

(* System-wide atomics: a processor without native atomics on the copy may *)
(* be mapped read-write-atomic only while no other processor can write     *)
(* (block_check_mappings_page).  Explicit migrations are left out: they    *)
(* map pages that stay where they are without revoking anything.           *)
AtomicsExclusive ==
  "migrate" \notin setup.operations =>
    \A p \in Pages : \A q \in Authorized(p, READ_WRITE_ATOMIC) \cap SystemWideAtomics :
      (\A r \in resident[p] : q \notin has_native_atomics(r)) => Authorized(p, READ_WRITE) = {q}

(* Nobody reads an old copy of a page or writes one of several.            *)
DataCoherent == DataPreserved /\ MappingsCoherent

(* What read duplication and system-wide atomics promise.                  *)
PoliciesKept == DuplicationRecorded /\ AtomicsExclusive
============================================================================
