-------------------------- MODULE MapAllocatorProofs --------------------------
(***************************************************************************)
(* MapAllocator for any number of files, descriptors and addresses.  The   *)
(* inductive invariant is about regions, not vectors: a region that is     *)
(* mapped, leaked ones included, has a header that names an open           *)
(* descriptor no other region names.  The descriptor in the hands of a     *)
(* load or of free is outside all of them.                                 *)
(***************************************************************************)
EXTENDS MapAllocator, TLAPS

\* A header tells the truth about its region.
Headers ==
  \A b \in Base : Mapped(b) =>
    /\ region[b].len = Bytes[region[b].file]
    /\ hdr[b].len = region[b].len
    /\ hdr[b].fd \in Fd
    /\ fds[hdr[b].fd] = region[b].file

Distinct ==
  \A a, b \in Base : Mapped(a) /\ Mapped(b) /\ a # b => hdr[a].fd # hdr[b].fd

VectorsMapped == \A b \in Base : vec[b] # "none" => Mapped(b)

\* The load in progress.
Loading ==
  /\ call.pc = "map" =>
       /\ fds[call.fd] = call.file
       /\ \A b \in Base : Mapped(b) => hdr[b].fd # call.fd
  /\ call.pc = "alloc" =>
       /\ Mapped(call.base) /\ vec[call.base] = "none"
  /\ call.pc = "attr" => vec[call.base] = "protected"
  /\ call.pc = "return" => vec[call.base] \in {"fresh", "protected"}

\* The collection in progress.
Collecting ==
  /\ gc # Off => call.pc \in {"idle", "alloc", "attr"}
  /\ gc.pc = "unmap" =>
       /\ Collectable(gc.base)
       /\ gc.fd = hdr[gc.base].fd
       /\ gc.len = hdr[gc.base].len
  /\ gc.pc = "close" => \A b \in Base : Mapped(b) => hdr[b].fd # gc.fd

IInv == TypeOK /\ Headers /\ Distinct /\ VectorsMapped /\ Loading /\ Collecting

-----------------------------------------------------------------------------
(* The invariant is inductive: one step per action.                         *)

LEMMA InitInv == Init => IInv
  <1> SUFFICES ASSUME Init PROVE IInv
    OBVIOUS
  <1> USE DEF Init, Idle, Off, Unmapped, NoHeader, Mapped
  <1>1. TypeOK
    BY DEF TypeOK, Header
  <1>2. Headers /\ Distinct /\ VectorsMapped
    BY DEF Headers, Distinct, VectorsMapped
  <1>3. Loading /\ Collecting
    BY DEF Loading, Collecting
  <1>4. QED
    BY <1>1, <1>2, <1>3 DEF IInv

LEMMA LoadInv ==
  ASSUME IInv, NEW f \in File, NEW kind \in Kind, Load(f, kind)
  PROVE  IInv'
  <1> USE DEF IInv, Load, TypeOK, Header, Idle, Off, Unmapped, NoHeader, Mapped
  <1>1. TypeOK'
    BY ConstantsAssumption DEF FreeFds, Kind
  <1>2. Headers'
    BY DEF Headers, Loading, VectorsMapped
  <1>3. Distinct'
    BY DEF Headers, Distinct, Loading, Collecting
  <1>4. VectorsMapped'
    BY DEF VectorsMapped, Loading, Collecting
  <1>5. Loading'
    BY DEF Loading, Headers, Collecting, Distinct, VectorsMapped, Collectable
  <1>6. Collecting'
    BY DEF Collecting, Headers, Distinct, VectorsMapped, Loading, Collectable
  <1>7. QED
    BY <1>1, <1>2, <1>3, <1>4, <1>5, <1>6 DEF IInv

LEMMA OpenInv ==
  ASSUME IInv, Open
  PROVE  IInv'
  <1> USE DEF IInv, Open, TypeOK, Header, Idle, Off, Unmapped, NoHeader, Mapped
  <1>1. TypeOK'
    BY ConstantsAssumption DEF FreeFds, Kind
  <1>2. Headers'
    BY ConstantsAssumption DEF Headers, FreeFds, Closed
  <1>3. Distinct'
    BY DEF Headers, Distinct, Loading, Collecting
  <1>4. VectorsMapped'
    BY DEF VectorsMapped, Loading, Collecting
  <1>5. Loading'
    BY ConstantsAssumption DEF Loading, Headers, FreeFds, Closed
  <1>6. Collecting'
    BY DEF Collecting, Headers, Distinct, VectorsMapped, Loading, Collectable
  <1>7. QED
    BY <1>1, <1>2, <1>3, <1>4, <1>5, <1>6 DEF IInv

LEMMA OpenFailInv ==
  ASSUME IInv, OpenFail
  PROVE  IInv'
  <1> USE DEF IInv, OpenFail, TypeOK, Header, Idle, Off, Unmapped, NoHeader, Mapped
  <1>1. TypeOK'
    BY ConstantsAssumption DEF FreeFds, Kind
  <1>2. Headers'
    BY DEF Headers, Loading, VectorsMapped
  <1>3. Distinct'
    BY DEF Headers, Distinct, Loading, Collecting
  <1>4. VectorsMapped'
    BY DEF VectorsMapped, Loading, Collecting
  <1>5. Loading'
    BY DEF Loading, Headers, Collecting, Distinct, VectorsMapped, Collectable
  <1>6. Collecting'
    BY DEF Collecting, Headers, Distinct, VectorsMapped, Loading, Collectable
  <1>7. QED
    BY <1>1, <1>2, <1>3, <1>4, <1>5, <1>6 DEF IInv

LEMMA MapInv ==
  ASSUME IInv, Map
  PROVE  IInv'
  <1> USE DEF IInv, Map, MapLength, AfterMap, TypeOK, Header, Idle, Off, Unmapped, NoHeader, Mapped
  <1>1. TypeOK'
    BY ConstantsAssumption DEF FreeFds, Kind
  <1>2. Headers'
    BY DEF Headers, Loading, VectorsMapped
  <1>3. Distinct'
    BY DEF Headers, Distinct, Loading, Collecting
  <1>4. VectorsMapped'
    BY DEF VectorsMapped, Loading, Collecting
  <1>5. Loading'
    BY ConstantsAssumption DEF Loading, VectorsMapped
  <1>6. Collecting'
    BY DEF Collecting, Headers, Distinct, VectorsMapped, Loading, Collectable
  <1>7. QED
    BY <1>1, <1>2, <1>3, <1>4, <1>5, <1>6 DEF IInv

LEMMA MapFailInv ==
  ASSUME IInv, MapFail
  PROVE  IInv'
  <1> USE DEF IInv, MapFail, TypeOK, Header, Idle, Off, Unmapped, NoHeader, Mapped
  <1>1. TypeOK'
    BY ConstantsAssumption DEF FreeFds, Kind
  <1>2. Headers'
    BY DEF Headers, Loading, VectorsMapped
  <1>3. Distinct'
    BY DEF Headers, Distinct, Loading, Collecting
  <1>4. VectorsMapped'
    BY DEF VectorsMapped, Loading, Collecting
  <1>5. Loading'
    BY DEF Loading, Headers, Collecting, Distinct, VectorsMapped, Collectable
  <1>6. Collecting'
    BY DEF Collecting, Headers, Distinct, VectorsMapped, Loading, Collectable
  <1>7. QED
    BY <1>1, <1>2, <1>3, <1>4, <1>5, <1>6 DEF IInv

LEMMA AllocInv ==
  ASSUME IInv, Alloc
  PROVE  IInv'
  <1> USE DEF IInv, Alloc, Built, TypeOK, Header, Idle, Off, Unmapped, NoHeader, Mapped
  <1>1. TypeOK'
    BY ConstantsAssumption DEF FreeFds, Kind
  <1>2. Headers'
    BY DEF Headers, Loading, VectorsMapped
  <1>3. Distinct'
    BY DEF Headers, Distinct, Loading, Collecting
  <1>4. VectorsMapped'
    BY DEF VectorsMapped, Loading, Collecting
  <1>5. Loading'
    BY DEF Loading, Headers, Collecting, Distinct, VectorsMapped, Collectable
  <1>6. Collecting'
    BY DEF Collecting, Headers, Distinct, VectorsMapped, Loading, Collectable
  <1>7. QED
    BY <1>1, <1>2, <1>3, <1>4, <1>5, <1>6 DEF IInv

LEMMA AllocFailInv ==
  ASSUME IInv, AllocFail
  PROVE  IInv'
  <1> USE DEF IInv, AllocFail, TypeOK, Header, Idle, Off, Unmapped, NoHeader, Mapped
  <1>1. TypeOK'
    BY ConstantsAssumption DEF FreeFds, Kind
  <1>2. Headers'
    BY DEF Headers, Loading, VectorsMapped
  <1>3. Distinct'
    BY DEF Headers, Distinct, Loading, Collecting
  <1>4. VectorsMapped'
    BY DEF VectorsMapped, Loading, Collecting
  <1>5. Loading'
    BY DEF Loading, Headers, Collecting, Distinct, VectorsMapped, Collectable
  <1>6. Collecting'
    BY DEF Collecting, Headers, Distinct, VectorsMapped, Loading, Collectable
  <1>7. QED
    BY <1>1, <1>2, <1>3, <1>4, <1>5, <1>6 DEF IInv

LEMMA AttrInv ==
  ASSUME IInv, Attr
  PROVE  IInv'
  <1> USE DEF IInv, Attr, TypeOK, Header, Idle, Off, Unmapped, NoHeader, Mapped
  <1>1. TypeOK'
    BY ConstantsAssumption DEF FreeFds, Kind
  <1>2. Headers'
    BY DEF Headers, Loading, VectorsMapped
  <1>3. Distinct'
    BY DEF Headers, Distinct, Loading, Collecting
  <1>4. VectorsMapped'
    BY DEF VectorsMapped, Loading, Collecting
  <1>5. Loading'
    BY DEF Loading, Headers, Collecting, Distinct, VectorsMapped, Collectable
  <1>6. Collecting'
    BY DEF Collecting, Headers, Distinct, VectorsMapped, Loading, Collectable
  <1>7. QED
    BY <1>1, <1>2, <1>3, <1>4, <1>5, <1>6 DEF IInv

LEMMA AttrFailInv ==
  ASSUME IInv, AttrFail
  PROVE  IInv'
  <1> USE DEF IInv, AttrFail, TypeOK, Header, Idle, Off, Unmapped, NoHeader, Mapped
  <1>1. TypeOK'
    BY ConstantsAssumption DEF FreeFds, Kind
  <1>2. Headers'
    BY DEF Headers, Loading, VectorsMapped
  <1>3. Distinct'
    BY DEF Headers, Distinct, Loading, Collecting
  <1>4. VectorsMapped'
    BY DEF VectorsMapped, Loading, Collecting
  <1>5. Loading'
    BY DEF Loading, Headers, Collecting, Distinct, VectorsMapped, Collectable
  <1>6. Collecting'
    BY DEF Collecting, Headers, Distinct, VectorsMapped, Loading, Collectable
  <1>7. QED
    BY <1>1, <1>2, <1>3, <1>4, <1>5, <1>6 DEF IInv

LEMMA ReturnInv ==
  ASSUME IInv, Return
  PROVE  IInv'
  <1> USE DEF IInv, Return, TypeOK, Header, Idle, Off, Unmapped, NoHeader, Mapped
  <1>1. TypeOK'
    BY ConstantsAssumption DEF FreeFds, Kind
  <1>2. Headers'
    BY DEF Headers, Loading, VectorsMapped
  <1>3. Distinct'
    BY DEF Headers, Distinct, Loading, Collecting
  <1>4. VectorsMapped'
    BY DEF VectorsMapped, Loading, Collecting
  <1>5. Loading'
    BY DEF Loading, Headers, Collecting, Distinct, VectorsMapped, Collectable
  <1>6. Collecting'
    BY DEF Collecting, Headers, Distinct, VectorsMapped, Loading, Collectable
  <1>7. QED
    BY <1>1, <1>2, <1>3, <1>4, <1>5, <1>6 DEF IInv

LEMMA DropInv ==
  ASSUME IInv, NEW b \in Base, Drop(b)
  PROVE  IInv'
  <1> USE DEF IInv, Drop, TypeOK, Header, Idle, Off, Unmapped, NoHeader, Mapped
  <1>1. TypeOK'
    BY ConstantsAssumption DEF FreeFds, Kind
  <1>2. Headers'
    BY DEF Headers, Loading, VectorsMapped
  <1>3. Distinct'
    BY DEF Headers, Distinct, Loading, Collecting
  <1>4. VectorsMapped'
    BY DEF VectorsMapped, Loading, Collecting
  <1>5. Loading'
    BY DEF Loading, Headers, Collecting, Distinct, VectorsMapped, Collectable
  <1>6. Collecting'
    BY DEF Collecting, Headers, Distinct, VectorsMapped, Loading, Collectable
  <1>7. QED
    BY <1>1, <1>2, <1>3, <1>4, <1>5, <1>6 DEF IInv

LEMMA GcStartInv ==
  ASSUME IInv, GcStart
  PROVE  IInv'
  <1> USE DEF IInv, GcStart, TypeOK, Header, Idle, Off, Unmapped, NoHeader, Mapped
  <1>1. TypeOK'
    BY ConstantsAssumption DEF FreeFds, Kind
  <1>2. Headers'
    BY DEF Headers, Loading, VectorsMapped
  <1>3. Distinct'
    BY DEF Headers, Distinct, Loading, Collecting
  <1>4. VectorsMapped'
    BY DEF VectorsMapped, Loading, Collecting
  <1>5. Loading'
    BY DEF Loading, Headers, Collecting, Distinct, VectorsMapped, Collectable
  <1>6. Collecting'
    BY DEF Collecting, Headers, Distinct, VectorsMapped, Loading, Collectable
  <1>7. QED
    BY <1>1, <1>2, <1>3, <1>4, <1>5, <1>6 DEF IInv

LEMMA FreeInv ==
  ASSUME IInv, NEW b \in Base, Free(b)
  PROVE  IInv'
  <1> USE DEF IInv, Free, TypeOK, Header, Idle, Off, Unmapped, NoHeader, Mapped
  <1>1. TypeOK'
    BY ConstantsAssumption DEF FreeFds, Kind
  <1>2. Headers'
    BY DEF Headers, Loading, VectorsMapped
  <1>3. Distinct'
    BY DEF Headers, Distinct, Loading, Collecting
  <1>4. VectorsMapped'
    BY DEF VectorsMapped, Loading, Collecting
  <1>5. Loading'
    BY DEF Loading, Headers, Collecting, Distinct, VectorsMapped, Collectable
  <1>6. Collecting'
    BY DEF Collecting, Headers, Distinct, VectorsMapped, Loading, Collectable
  <1>7. QED
    BY <1>1, <1>2, <1>3, <1>4, <1>5, <1>6 DEF IInv

LEMMA UnmapInv ==
  ASSUME IInv, Unmap
  PROVE  IInv'
  <1> USE DEF IInv, Unmap, TypeOK, Header, Idle, Off, Unmapped, NoHeader, Mapped
  <1>0. /\ gc.base \in Base
        /\ region' = [region EXCEPT ![gc.base] = Unmapped]
        /\ hdr' = [hdr EXCEPT ![gc.base] = NoHeader]
    <2>0. gc.pc = "unmap" /\ gc.base \in Base /\ gc.len \in Nat
      OBVIOUS
    <2>1. gc.base \in Base /\ Mapped(gc.base)
      BY <2>0 DEF Collecting, Collectable, VectorsMapped
    <2>2. gc.len = region[gc.base].len /\ gc.len \in Nat
      BY <2>0, <2>1 DEF Collecting, Headers
    <2>3. gc.len >= region[gc.base].len
      BY <2>2
    <2>4. QED
      BY <2>1, <2>3
  <1>1. TypeOK'
    <2>1. region' \in [Base -> {Unmapped} \cup [len: Nat \ {0}, file: File]]
      BY <1>0
    <2>2. hdr' \in [Base -> Header]
      BY <1>0
    <2>3. QED
      BY <2>1, <2>2
  <1>2. Headers'
    BY <1>0 DEF Headers
  <1>3. Distinct'
    BY DEF Headers, Distinct, Loading, Collecting
  <1>4. VectorsMapped'
    BY DEF VectorsMapped, Loading, Collecting
  <1>5. Loading'
    BY DEF Loading, Headers, Collecting, Distinct, VectorsMapped, Collectable
  <1>6. Collecting'
    BY DEF Collecting, Headers, Distinct, VectorsMapped, Loading, Collectable
  <1>7. QED
    BY <1>1, <1>2, <1>3, <1>4, <1>5, <1>6 DEF IInv

LEMMA CloseInv ==
  ASSUME IInv, Close
  PROVE  IInv'
  <1> USE DEF IInv, Close, Without, TypeOK, Header, Idle, Off, Unmapped, NoHeader, Mapped
  <1>1. TypeOK'
    BY ConstantsAssumption DEF FreeFds, Kind
  <1>2. Headers'
    BY DEF Headers, Collecting
  <1>3. Distinct'
    BY DEF Headers, Distinct, Loading, Collecting
  <1>4. VectorsMapped'
    BY DEF VectorsMapped, Loading, Collecting
  <1>5. Loading'
    BY DEF Loading, Headers, Collecting, Distinct, VectorsMapped, Collectable
  <1>6. Collecting'
    BY DEF Collecting, Headers, Distinct, VectorsMapped, Loading, Collectable
  <1>7. QED
    BY <1>1, <1>2, <1>3, <1>4, <1>5, <1>6 DEF IInv

LEMMA GcEndInv ==
  ASSUME IInv, GcEnd
  PROVE  IInv'
  <1> USE DEF IInv, GcEnd, TypeOK, Header, Idle, Off, Unmapped, NoHeader, Mapped
  <1>1. TypeOK'
    BY ConstantsAssumption DEF FreeFds, Kind
  <1>2. Headers'
    BY DEF Headers, Loading, VectorsMapped
  <1>3. Distinct'
    BY DEF Headers, Distinct, Loading, Collecting
  <1>4. VectorsMapped'
    BY DEF VectorsMapped, Loading, Collecting
  <1>5. Loading'
    BY DEF Loading, Headers, Collecting, Distinct, VectorsMapped, Collectable
  <1>6. Collecting'
    BY DEF Collecting, Headers, Distinct, VectorsMapped, Loading, Collectable
  <1>7. QED
    BY <1>1, <1>2, <1>3, <1>4, <1>5, <1>6 DEF IInv

LEMMA NextInv == IInv /\ [Next]_vars => IInv'
  <1> SUFFICES ASSUME IInv, [Next]_vars PROVE IInv'
    OBVIOUS
  <1>1. CASE UNCHANGED vars
    BY <1>1 DEF vars, IInv, TypeOK, Headers, Distinct, VectorsMapped, Loading,
                Collecting, Collectable, Mapped
  <1>2. CASE Next
    BY <1>2, LoadInv, OpenInv, OpenFailInv, MapInv, MapFailInv, AllocInv,
       AllocFailInv, AttrInv, AttrFailInv, ReturnInv, DropInv, GcStartInv,
       FreeInv, UnmapInv, CloseInv, GcEndInv
       DEF Next, LoadStep, GcStep
  <1>3. QED
    BY <1>1, <1>2

LEMMA Invariance == Spec => []IInv
  BY InitInv, NextInv, PTL DEF Spec

-----------------------------------------------------------------------------
(* The properties.                                                          *)

\* The tables keep their types.
THEOREM TypeCorrect == Spec => []TypeOK
  BY Invariance, PTL DEF IInv

\* Every vector over a mapping has the mapping and an open descriptor of its
\* own, whatever is loaded, dropped and collected in whatever order.
THEOREM Ownership == Spec => []VectorsOwnTheirMapping
  <1>1. IInv => VectorsOwnTheirMapping
    BY DEF IInv, Headers, Distinct, VectorsMapped, VectorsOwnTheirMapping
  <1>2. QED
    BY <1>1, Invariance, PTL

\* No step touches the mapping, the header or the descriptor of a column that
\* R code goes on holding.
THEOREM HeldIsUndisturbed == Spec => HeldUndisturbed
  <1> DEFINE Same(b) == /\ region'[b] = region[b] /\ hdr'[b] = hdr[b]
                        /\ fds'[hdr[b].fd] = fds[hdr[b].fd]
             Undisturbed == \A b \in Base : vec[b] = "held" /\ vec'[b] = "held" => Same(b)
  <1>1. IInv /\ [Next]_vars => [Undisturbed]_vars
    <2> SUFFICES ASSUME IInv, Next, NEW b \in Base, vec[b] = "held", vec'[b] = "held"
                 PROVE  Same(b)
      BY DEF vars
    <2>0. /\ Mapped(b) /\ hdr[b].fd \in Fd /\ fds[hdr[b].fd] = region[b].file
          /\ region[b].file \in File
      BY DEF IInv, TypeOK, Headers, VectorsMapped, Mapped, Unmapped
    <2>1. CASE Open
      BY <2>0, <2>1, ConstantsAssumption DEF Open, FreeFds, Closed, IInv, TypeOK
    <2>2. CASE Map
      BY <2>0, <2>2 DEF Map, MapLength, AfterMap, IInv, TypeOK
    <2>3. CASE Unmap
      BY <2>0, <2>3 DEF Unmap, IInv, TypeOK, Collecting, Collectable
    <2>4. CASE Close
      BY <2>0, <2>4 DEF Close, Without, IInv, TypeOK, Collecting
    <2>5. CASE ~(Open \/ Map \/ Unmap \/ Close)
      BY <2>5 DEF Next, LoadStep, GcStep, Load, OpenFail, MapFail, Alloc, Built,
                  AllocFail, Attr, AttrFail, Return, Drop, GcStart, Free, GcEnd
    <2>6. QED
      BY <2>1, <2>2, <2>3, <2>4, <2>5
  <1>2. QED
    BY <1>1, Invariance, PTL DEF Spec, HeldUndisturbed

\* A descriptor somebody will close: the owner is a vector, or it is in the
\* hands of the load or of free.
Accounted(d) == (\E b \in Base : vec[b] # "none" /\ hdr[b].fd = d) \/ d \in InFlight

LeakInv ==
  ~failed =>
    /\ \A d \in Fd : fds[d] # Closed => Accounted(d)
    /\ \A b \in Base :
         Mapped(b) => vec[b] # "none" \/ (call.pc = "alloc" /\ call.base = b)

\* The only leaks are the two error paths in the middle of a load.
THEOREM LeaksOnlyOnFailures == Spec => []LeaksOnlyOnFailure
  <1>1. Init => LeakInv
    BY DEF Init, LeakInv, Mapped, Unmapped
  <1>2. IInv /\ LeakInv /\ [Next]_vars => LeakInv'
    <2> SUFFICES ASSUME IInv, LeakInv, [Next]_vars, ~failed'
                 PROVE  LeakInv'
      BY DEF LeakInv
    <2>0. ~failed /\ (Next \/ UNCHANGED vars)
      BY DEF vars, Next, LoadStep, GcStep, Load, Open, OpenFail, Map, MapLength, AfterMap, MapFail, Alloc, Built,
             AllocFail, Attr, AttrFail, Return, Drop, GcStart, Free, Unmap, Close, GcEnd
    <2> USE DEF IInv, LeakInv, Accounted, InFlight, Mapped, TypeOK
    <2>1. ASSUME NEW f \in File, NEW kind \in Kind, Load(f, kind) PROVE LeakInv'
      BY <2>0, <2>1 DEF Load, Idle, Off
    <2>2. ASSUME NEW b \in Base, Drop(b) PROVE LeakInv'
      BY <2>0, <2>2 DEF Drop, Idle, Off
    <2>3. ASSUME NEW b \in Base, Free(b) PROVE LeakInv'
      BY <2>0, <2>3 DEF Free, Collecting, Off
    <2>4. CASE Open
      BY <2>0, <2>4 DEF Open, Loading, Collecting, Idle, Off
    <2>5. CASE OpenFail
      BY <2>0, <2>5 DEF OpenFail, Loading, Collecting, Idle, Off
    <2>6. CASE Map
      <3>1. PICK b \in Base :
              /\ ~Mapped(b)
              /\ region' = [region EXCEPT ![b] = [len |-> Bytes[call.file], file |-> call.file]]
              /\ hdr' = [hdr EXCEPT ![b] = [fd |-> call.fd, len |-> Bytes[call.file]]]
              /\ call' = [pc |-> "alloc", file |-> call.file, kind |-> call.kind, base |-> b]
        BY <2>6 DEF Map, MapLength, AfterMap
      <3>2. call.pc = "map" /\ UNCHANGED <<fds, vec, gc, failed>>
        BY <2>6 DEF Map, MapLength, AfterMap
      <3>3. call'.pc = "alloc" /\ call'.base = b /\ hdr'[b].fd = call.fd
        BY <3>1
      <3>4. \A a \in Base : a # b => hdr'[a] = hdr[a] /\ region'[a] = region[a]
        BY <3>1
      <3>5. vec[b] = "none"
        BY <3>1 DEF VectorsMapped
      <3>6. ASSUME NEW d \in Fd, fds[d] # Closed PROVE Accounted(d)'
        <4>1. Accounted(d)
          BY <2>0, <3>6
        <4>2. CASE \E a \in Base : vec[a] # "none" /\ hdr[a].fd = d
          BY <3>2, <3>4, <3>5, <4>2
        <4>3. CASE call.fd = d
          BY <3>3, <4>3
        <4>4. CASE gc.pc = "close" /\ gc.fd = d
          BY <3>2, <4>4
        <4>5. QED
          BY <3>2, <4>1, <4>2, <4>3, <4>4
      <3>7. ASSUME NEW a \in Base, Mapped(a)' PROVE (vec[a] # "none" \/ (call.pc = "alloc" /\ call.base = a))'
        BY <2>0, <3>2, <3>3, <3>4, <3>7
      <3>8. QED
        BY <3>2, <3>6, <3>7
    <2>7. CASE MapFail
      BY <2>0, <2>7 DEF MapFail, Loading, Collecting, Idle, Off
    <2>8. CASE Alloc
      BY <2>0, <2>8 DEF Alloc, Built, Loading, Collecting, Idle, Off
    <2>9. CASE AllocFail
      BY <2>0, <2>9 DEF AllocFail, Loading, Collecting, Idle, Off
    <2>10. CASE Attr
      BY <2>0, <2>10 DEF Attr, Loading, Collecting, Idle, Off
    <2>11. CASE AttrFail
      BY <2>0, <2>11 DEF AttrFail, Loading, Collecting, Idle, Off
    <2>12. CASE Return
      BY <2>0, <2>12 DEF Return, Loading, Collecting, Idle, Off
    <2>13. CASE GcStart
      BY <2>0, <2>13 DEF GcStart, Loading, Collecting, Idle, Off
    <2>14. CASE Unmap
      <3>1. /\ gc.pc = "unmap" /\ gc.base \in Base /\ gc.len = hdr[gc.base].len
            /\ gc.fd = hdr[gc.base].fd /\ vec[gc.base] # "none"
        BY <2>14 DEF Unmap, Collecting, Collectable, Off
      <3>2. gc.len = region[gc.base].len
        BY <3>1 DEF Headers, VectorsMapped
      <3>3. gc.len >= region[gc.base].len
        <4>1. hdr[gc.base].len \in Nat
          BY <3>1 DEF Header
        <4>2. QED
          BY <3>1, <3>2, <4>1
      <3>4. /\ region' = [region EXCEPT ![gc.base] = Unmapped]
            /\ hdr' = [hdr EXCEPT ![gc.base] = NoHeader]
            /\ vec' = [vec EXCEPT ![gc.base] = "none"]
            /\ gc' = [pc |-> "close", fd |-> gc.fd]
            /\ UNCHANGED <<fds, call, failed>>
        BY <2>14, <3>3 DEF Unmap
      <3>5. ASSUME NEW d \in Fd, fds[d] # Closed PROVE Accounted(d)'
        <4>1. Accounted(d)
          BY <2>0, <3>5
        <4>2. CASE d = gc.fd
          BY <3>4, <4>2
        <4>3. CASE d # gc.fd /\ \E a \in Base : vec[a] # "none" /\ hdr[a].fd = d
          <5>1. PICK a \in Base : vec[a] # "none" /\ hdr[a].fd = d
            BY <4>3
          <5>2. a # gc.base
            BY <3>1, <4>3, <5>1
          <5>3. vec'[a] # "none" /\ hdr'[a].fd = d
            BY <3>4, <5>1, <5>2
          <5>4. QED
            BY <5>3
        <4>4. CASE call.pc = "map" /\ call.fd = d
          BY <3>4, <4>4
        <4>5. CASE d # gc.fd /\ call.pc = "alloc" /\ hdr[call.base].fd = d
          <5>0. call.base \in Base
            BY <4>5 DEF Idle
          <5>1. call.base # gc.base
            BY <3>1, <4>5 DEF Loading
          <5>2. QED
            BY <3>4, <4>5, <5>0, <5>1
        <4>6. QED
          BY <3>1, <4>1, <4>2, <4>3, <4>4, <4>5
      <3>6. ASSUME NEW a \in Base, Mapped(a)' PROVE (vec[a] # "none" \/ (call.pc = "alloc" /\ call.base = a))'
        BY <2>0, <3>4, <3>6 DEF Unmapped
      <3>7. QED
        BY <3>4, <3>5, <3>6
    <2>15. CASE Close
      BY <2>0, <2>15 DEF Close, Without, Loading, Collecting, Idle, Off
    <2>16. CASE GcEnd
      BY <2>0, <2>16 DEF GcEnd, Loading, Collecting, Idle, Off
    <2>17. CASE UNCHANGED vars
      BY <2>0, <2>17 DEF vars
    <2>18. QED
      BY <2>0, <2>1, <2>2, <2>3, <2>4, <2>5, <2>6, <2>7, <2>8, <2>9, <2>10, <2>11, <2>12, <2>13, <2>14, <2>15, <2>16, <2>17 DEF Next, LoadStep, GcStep
  <1>3. LeakInv => LeaksOnlyOnFailure
    BY DEF LeakInv, Accounted, LeaksOnlyOnFailure, InUse
  <1>4. QED
    BY <1>1, <1>2, <1>3, Invariance, PTL DEF Spec

=============================================================================
