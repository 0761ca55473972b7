----------------------------- MODULE MapAllocator -----------------------------
(***************************************************************************)
(* Loading a column split as a memory-mapped R vector and giving it back.  *)
(*                                                                         *)
(* A load opens the column file, maps rows * size + 128 bytes of it, puts  *)
(* a MapAllocator header {fd_, length_} over the first bytes of the        *)
(* mapping and lets R place a vector in it through a custom allocator.     *)
(* The header is the only record of the descriptor and of the length, and  *)
(* it lives in the region it describes: when R's collector frees the       *)
(* vector, MapAllocator::free reads it, unmaps the region and closes the   *)
(* descriptor.                                                             *)
(*                                                                         *)
(* R is single threaded, but its collector runs inside any allocation, so  *)
(* also in the middle of a load.  Addresses and descriptors are reused.    *)
(***************************************************************************)
EXTENDS Integers, FiniteSets

CONSTANTS
  File,       \* column files
  Missing,    \* those that do not exist
  Bytes,      \* bytes to map of each file
  MaxFd,      \* descriptors the process may have open
  Base        \* addresses mmap can return

ASSUME ConstantsAssumption ==
  /\ Missing \subseteq File
  /\ Bytes \in [File -> Nat \ {0}]
  /\ "closed" \notin File
  /\ MaxFd \in Nat
  /\ Base \subseteq Nat \ {0}

Fd     == 1..MaxFd
Closed == "closed"

VARIABLES
  fds,      \* descriptor table: the file a descriptor is open on, or Closed
  region,   \* what is mapped at each address; len = 0 where nothing is
  hdr,      \* the header in the first bytes of each region
  vec,      \* the R vector in the region: "none", "fresh" (nothing refers to
            \* it yet), "protected", "held" by R code, or "garbage"
  call,     \* the load in progress
  gc,       \* the collector, and the locals of MapAllocator::free
  failed    \* history: some mmap or R allocation has failed in mid-load

vars == <<fds, region, hdr, vec, call, gc, failed>>

\* Integer and double columns are returned bare; for the others the vector is
\* protected and given its class (and levels).
Kind == {"bare", "attr"}

Idle       == [pc |-> "idle"]
Unmapped   == [len |-> 0]
NoHeader   == [fd |-> 0, len |-> 0]
Off        == [pc |-> "off"]

Mapped(b)  == region[b].len # 0

Init ==
  /\ fds = [d \in Fd |-> Closed]
  /\ region = [b \in Base |-> Unmapped]
  /\ hdr = [b \in Base |-> NoHeader]
  /\ vec = [b \in Base |-> "none"]
  /\ call = Idle
  /\ gc = Off
  /\ failed = FALSE

-----------------------------------------------------------------------------
(* SdsPartitionCols::split and SColBuffer: one load.                        *)

\* R code asks for a split of a column.
Load(f, kind) ==
  /\ gc = Off /\ call = Idle
  /\ call' = [pc |-> "open", file |-> f, kind |-> kind]
  /\ UNCHANGED <<fds, region, hdr, vec, gc, failed>>

FreeFds == {d \in Fd : fds[d] = Closed}

\* open() gives the lowest free descriptor.
Open ==
  /\ call.pc = "open"
  /\ call.file \notin Missing
  /\ \E d \in FreeFds :
       /\ \A e \in FreeFds : d =< e
       /\ fds' = [fds EXCEPT ![d] = call.file]
       /\ call' = [pc |-> "map", file |-> call.file, kind |-> call.kind, fd |-> d]
  /\ UNCHANGED <<region, hdr, vec, gc, failed>>

\* open() fails: mapChunk returns NULL and the vector is R_NilValue, which a
\* bare column returns and for which setting a class is an R error.
OpenFail ==
  /\ call.pc = "open"
  /\ call.file \in Missing \/ FreeFds = {}
  /\ call' = Idle
  /\ UNCHANGED <<fds, region, hdr, vec, gc, failed>>

\* Mutant: the bytes of the header are not counted.
MapLengthShort(f) == Bytes[f] - 2

\* rows * size + 128 bytes
MapLength(f) == Bytes[f]

\* Mutant: the descriptor is closed as soon as the file is mapped.
AfterMapClosed == [fds EXCEPT ![call.fd] = Closed]

\* The descriptor stays open for free.
AfterMap == fds

\* mmap() succeeds and the header is constructed at its base.  The mapping is
\* private: nothing R writes over it reaches the file.
Map ==
  /\ call.pc = "map"
  /\ \E b \in Base :
       /\ ~Mapped(b)
       /\ region' = [region EXCEPT ![b] = [len |-> MapLength(call.file), file |-> call.file]]
       /\ hdr' = [hdr EXCEPT ![b] = [fd |-> call.fd, len |-> MapLength(call.file)]]
       /\ call' = [pc |-> "alloc", file |-> call.file, kind |-> call.kind, base |-> b]
  /\ fds' = AfterMap
  /\ UNCHANGED <<vec, gc, failed>>

\* mmap() fails: mapChunk returns NULL and leaves the descriptor open.
MapFail ==
  /\ call.pc = "map"
  /\ call' = Idle
  /\ failed' = TRUE
  /\ UNCHANGED <<fds, region, hdr, vec, gc>>

\* Mutant: no PROTECT while the attributes are set.
BuiltUnprotected(kind) == "fresh"

\* A bare column is returned with no allocation in between; otherwise PROTECT
\* is the next call.
Built(kind) == IF kind = "bare" THEN "fresh" ELSE "protected"

\* Rf_allocVector3 builds the vector in the region.
Alloc ==
  /\ gc = Off
  /\ call.pc = "alloc"
  /\ vec' = [vec EXCEPT ![call.base] = Built(call.kind)]
  /\ call' = [call EXCEPT !.pc = IF call.kind = "bare" THEN "return" ELSE "attr"]
  /\ UNCHANGED <<fds, region, hdr, gc, failed>>

\* Rf_allocVector3 gives up with an R error: the mapping and its descriptor
\* have no owner.
AllocFail ==
  /\ gc = Off
  /\ call.pc = "alloc"
  /\ call' = Idle
  /\ failed' = TRUE
  /\ UNCHANGED <<fds, region, hdr, vec, gc>>

\* The class and levels are set, the vector is unprotected and returned.
Attr ==
  /\ gc = Off
  /\ call.pc = "attr"
  /\ call' = [call EXCEPT !.pc = "return"]
  /\ UNCHANGED <<fds, region, hdr, vec, gc, failed>>

\* Reading the levels or making the attribute fails: the error unwinds the
\* protection and nothing refers to the vector.
AttrFail ==
  /\ gc = Off
  /\ call.pc = "attr"
  /\ vec' = [vec EXCEPT ![call.base] = "garbage"]
  /\ call' = Idle
  /\ UNCHANGED <<fds, region, hdr, gc, failed>>

Return ==
  /\ call.pc = "return"
  /\ vec' = [vec EXCEPT ![call.base] = "held"]
  /\ call' = Idle
  /\ UNCHANGED <<fds, region, hdr, gc, failed>>

LoadStep ==
  Open \/ OpenFail \/ Map \/ MapFail \/ Alloc \/ AllocFail \/ Attr \/ AttrFail \/ Return

-----------------------------------------------------------------------------
(* R code and R's collector.                                                *)

\* R code lets go of a column.
Drop(b) ==
  /\ gc = Off /\ call = Idle
  /\ vec[b] = "held"
  /\ vec' = [vec EXCEPT ![b] = "garbage"]
  /\ UNCHANGED <<fds, region, hdr, call, gc, failed>>

Collectable(b) == vec[b] \in {"garbage", "fresh"}

\* A collection can start wherever R allocates: between calls, before the
\* vector is built, while the attributes are made.
GcStart ==
  /\ gc = Off
  /\ call.pc \in {"idle", "alloc", "attr"}
  /\ \E b \in Base : Collectable(b)
  /\ gc' = [pc |-> "sweep"]
  /\ UNCHANGED <<fds, region, hdr, vec, call, failed>>

\* Mutant: free returns before it has done anything.
FreeNothing(b) ==
  /\ gc.pc = "sweep"
  /\ Collectable(b)
  /\ UNCHANGED vars

\* MapAllocator::free(b): read the header ...
Free(b) ==
  /\ gc.pc = "sweep"
  /\ Collectable(b)
  /\ gc' = [pc |-> "unmap", base |-> b, fd |-> hdr[b].fd, len |-> hdr[b].len]
  /\ UNCHANGED <<fds, region, hdr, vec, call, failed>>

\* ... munmap(allocator->data, len): the header and the vector go with it ...
Unmap ==
  /\ gc.pc = "unmap"
  /\ region' = [region EXCEPT ![gc.base] =
                  IF gc.len >= region[gc.base].len THEN Unmapped
                  ELSE [@ EXCEPT !.len = @ - gc.len]]
  /\ hdr' = [hdr EXCEPT ![gc.base] = NoHeader]
  /\ vec' = [vec EXCEPT ![gc.base] = "none"]
  /\ gc' = [pc |-> "close", fd |-> gc.fd]
  /\ UNCHANGED <<fds, call, failed>>

\* Mutant: no close().
WithoutNothing(d) == fds

\* close() fails without effect on a descriptor that is not open.
Without(d) == [e \in Fd |-> IF e = d THEN Closed ELSE fds[e]]

\* ... close(fd).
Close ==
  /\ gc.pc = "close"
  /\ fds' = Without(gc.fd)
  /\ gc' = [pc |-> "sweep"]
  /\ UNCHANGED <<region, hdr, vec, call, failed>>

GcEnd ==
  /\ gc.pc = "sweep"
  /\ ~ \E b \in Base : Collectable(b)
  /\ gc' = Off
  /\ UNCHANGED <<fds, region, hdr, vec, call, failed>>

GcStep == (\E b \in Base : Free(b)) \/ Unmap \/ Close \/ GcEnd

Next ==
  \/ \E f \in File, kind \in Kind : Load(f, kind)
  \/ LoadStep
  \/ \E b \in Base : Drop(b)
  \/ GcStart
  \/ GcStep

Spec == Init /\ [][Next]_vars

\* A load and a collection run to their end.  A session that goes on using
\* the package allocates, so a collection that could start again and again
\* does start.
FairSpec == Spec /\ WF_vars(LoadStep) /\ WF_vars(GcStep) /\ SF_vars(GcStart)

-----------------------------------------------------------------------------
(* Properties *)

Header == [fd: Fd \cup {0}, len: Nat]

TypeOK ==
  /\ fds \in [Fd -> File \cup {Closed}]
  /\ region \in [Base -> {Unmapped} \cup [len: Nat \ {0}, file: File]]
  /\ hdr \in [Base -> Header]
  /\ vec \in [Base -> {"none", "fresh", "protected", "held", "garbage"}]
  /\ call \in {Idle} \cup [pc: {"open"}, file: File, kind: Kind]
                     \cup [pc: {"map"}, file: File, kind: Kind, fd: Fd]
                     \cup [pc: {"alloc", "attr", "return"}, file: File,
                           kind: Kind, base: Base]
  /\ gc \in {Off, [pc |-> "sweep"]}
              \cup [pc: {"unmap"}, base: Base, fd: Fd \cup {0}, len: Nat]
              \cup [pc: {"close"}, fd: Fd \cup {0}]
  /\ failed \in BOOLEAN

\* Every R vector over a mapping has its whole mapping under it, and a header
\* that names an open descriptor of its own file and the right length; R code
\* never holds a column whose bytes are gone, and free never unmaps another
\* column's bytes or closes its descriptor.
VectorsOwnTheirMapping ==
  /\ \A b \in Base : vec[b] # "none" =>
       /\ Mapped(b)
       /\ region[b].len = Bytes[region[b].file]
       /\ hdr[b].len = region[b].len
       /\ hdr[b].fd \in Fd
       /\ fds[hdr[b].fd] = region[b].file
  /\ \A a, b \in Base :
       a # b /\ vec[a] # "none" /\ vec[b] # "none" => hdr[a].fd # hdr[b].fd

InUse == {hdr[b].fd : b \in {a \in Base : vec[a] # "none"}}

\* The descriptor a load or a free in progress is about to pass on or close.
InFlight ==
  {d \in Fd : \/ call.pc = "map" /\ call.fd = d
              \/ call.pc = "alloc" /\ hdr[call.base].fd = d
              \/ gc.pc = "close" /\ gc.fd = d}

\* Descriptors and mappings are held only by vectors R still knows, unless an
\* mmap or an R allocation failed in the middle of a load: those two error
\* paths are the only leaks.
LeaksOnlyOnFailure ==
  ~failed =>
    /\ {d \in Fd : fds[d] # Closed} \subseteq InUse \cup InFlight
    /\ \A b \in Base : Mapped(b) => vec[b] # "none" \/ (call.pc = "alloc" /\ call.base = b)

\* A load, a collection and their failures leave the columns that R code
\* holds as they are: same mapping, same header, descriptor still open.
HeldUndisturbed ==
  [][\A b \in Base : vec[b] = "held" /\ vec'[b] = "held" =>
       /\ region'[b] = region[b] /\ hdr'[b] = hdr[b]
       /\ fds'[hdr[b].fd] = fds[hdr[b].fd]]_vars

\* A column R code has dropped is eventually unmapped.
GarbageIsFreed == \A b \in Base : vec[b] = "garbage" ~> vec[b] = "none"

=============================================================================
