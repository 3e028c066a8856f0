------------------------- MODULE DriverHandlesProofs -------------------------
(***************************************************************************)
(* Proofs about DriverHandles, for any number of renderers, any GPUs and   *)
(* any number of frames in flight: its type invariant, that the instance   *)
(* and the device outlive their users, that the device fits them, that no  *)
(* renderer waits for another that waits, and how near it is to its end.   *)
(***************************************************************************)
EXTENDS DriverHandles, FiniteSetTheorems, SequenceTheorems, TLAPS

Holders == {r \in Renderers : pc[r] # "off"}

\* The counter counts the handles, and the driver exists while one is held.
CountInv ==
    /\ current_drivers_num = Cardinality(Holders)
    /\ init_done <=> Holders # {}
    /\ instance = init_done
    /\ device => init_done

\* Who makes the device holds the mutex, and there was no device when it began.
OwnerInv ==
    \A r \in Renderers :
        /\ pc[r] \in {"make", "load"} <=> init_mtx = r
        /\ pc[r] = "make" => ~device

\* Who uses the device got past the point where it is made.
UseInv ==
    \A r \in Renderers :
        /\ pc[r] \in Using \cup {"load"} => device
        /\ jobs[r] > 0 => pc[r] \in {"running", "leaving"}

\* Only while it is made does the device lack its queues.
QueueInv ==
    /\ device /\ ~gfx_queue => \E r \in Renderers : pc[r] = "load"
    /\ \A r \in Renderers : pc[r] \in Using => gfx_queue \/ r \in early

\* The device was chosen for the driver's mode, and a renderer with a window that
\* got its surface is not in a headless driver.
FitInv ==
    /\ device => physical # NoGpu /\ MayUse(Gpus[physical], headless_mode)
    /\ \A r \in Renderers :
         ~headless[r] /\ pc[r] \notin {"off", "surface"} => ~headless_mode

DriverInv == DriverTypeOK /\ CountInv /\ OwnerInv /\ UseInv /\ QueueInv /\ FitInv

-----------------------------------------------------------------------------
(* The handles held, as renderers come, move on and go.                    *)

LEMMA HoldersFinite == IsFiniteSet(Holders) /\ Cardinality(Holders) \in Nat
<1>1. Holders \in SUBSET Renderers
  BY DEF Holders
<1>2. IsFiniteSet(Holders)
  BY <1>1, RenderersAssumption, FS_Subset
<1> QED
  BY <1>2, FS_CardinalityType

LEMMA HolderStays ==
    ASSUME DriverTypeOK, NEW r \in Renderers, NEW place, place # "off", pc[r] # "off",
           Goes(r, place)
    PROVE  Holders' = Holders
  BY DEF DriverTypeOK, Goes, Holders

LEMMA HolderComes ==
    ASSUME DriverTypeOK, NEW r \in Renderers, NEW place, place # "off", pc[r] = "off",
           Goes(r, place)
    PROVE  /\ Holders' = Holders \cup {r}
           /\ Cardinality(Holders') = Cardinality(Holders) + 1
<1>1. Holders' = Holders \cup {r} /\ r \notin Holders
  BY DEF DriverTypeOK, Goes, Holders
<1> QED
  BY <1>1, HoldersFinite, FS_AddElement

LEMMA HolderGoes ==
    ASSUME DriverTypeOK, NEW r \in Renderers, pc[r] # "off", Goes(r, "off")
    PROVE  /\ Holders' = Holders \ {r}
           /\ Cardinality(Holders') = Cardinality(Holders) - 1
           /\ Cardinality(Holders) = 1 => Holders' = {}
           /\ Cardinality(Holders) # 1 => Holders' # {}
<1>1. Holders' = Holders \ {r} /\ r \in Holders
  BY DEF DriverTypeOK, Goes, Holders
<1>2. /\ Cardinality(Holders \ {r}) = Cardinality(Holders) - 1
      /\ IsFiniteSet(Holders \ {r})
  BY <1>1, HoldersFinite, FS_RemoveElement
<1>3. Cardinality(Holders \ {r}) = 0 <=> Holders \ {r} = {}
  BY <1>2, FS_EmptySet
<1> QED
  BY <1>1, <1>2, <1>3, HoldersFinite

LEMMA BestMayBeUsed ==
    ASSUME NEW mode \in BOOLEAN, NEW i \in DOMAIN Gpus, IsBest(i, mode)
    PROVE  i # NoGpu /\ MayUse(Gpus[i], mode)
<1>1. i # NoGpu
  BY GpusAssumption DEF NoGpu
<1> QED
  BY <1>1 DEF IsBest, Candidates

-----------------------------------------------------------------------------
LEMMA DriverInvInit == DriverInit => DriverInv
<1> HAVE DriverInit
<1>1. Holders = {}
  BY DEF DriverInit, Holders
<1>2. CountInv
  BY <1>1, FS_EmptySet DEF DriverInit, CountInv
<1>3. DriverTypeOK
  <2>1. /\ headless \in [Renderers -> BOOLEAN]
        /\ jobs \in [Renderers -> 0..FramesInFlight]
        /\ lives \in [Renderers -> 0..MaxLives]
    BY NumbersAssumption DEF DriverInit
  <2>2. pc \in [Renderers -> {"off", "surface", "check", "lock", "make", "load", "create",
                              "running", "leaving", "release"}]
    BY DEF DriverInit
  <2>3. physical \in DOMAIN Gpus \cup {NoGpu} /\ early \subseteq Renderers
    BY DEF DriverInit
  <2>4. /\ init_done \in BOOLEAN /\ headless_mode \in BOOLEAN /\ instance \in BOOLEAN
        /\ device \in BOOLEAN /\ gfx_queue \in BOOLEAN /\ terminated \in BOOLEAN
    BY DEF DriverInit
  <2> QED
    BY <2>1, <2>2, <2>3, <2>4 DEF DriverInit, DriverTypeOK
<1>4. OwnerInv /\ UseInv /\ QueueInv /\ FitInv
  BY RenderersAssumption DEF DriverInit, OwnerInv, UseInv, QueueInv, FitInv, Using
<1> QED
  BY <1>2, <1>3, <1>4 DEF DriverInv

\* What every action of a renderer that keeps its handle leaves alone.
LEMMA CountStays ==
    ASSUME DriverTypeOK, CountInv, NEW r \in Renderers, NEW place, place # "off",
           pc[r] # "off", Goes(r, place), UNCHANGED handleVars,
           device' => init_done
    PROVE  CountInv'
  BY HolderStays DEF CountInv, handleVars

LEMMA TypeStep ==
    ASSUME DriverTypeOK, CountInv, [DriverNext]_driverVars
    PROVE  DriverTypeOK'
<1> USE DEF DriverTypeOK, Goes, At, handleVars, deviceVars
<1>1. ASSUME NEW r \in Renderers, NEW mode \in BOOLEAN, init_driver_handler(r, mode)
      PROVE  DriverTypeOK'
  BY <1>1, NumbersAssumption DEF init_driver_handler
<1>2. ASSUME NEW r \in Renderers, create_surface(r)
      PROVE  DriverTypeOK'
  BY <1>2 DEF create_surface, ProcessEnds
<1>3. ASSUME NEW r \in Renderers, CheckDevice(r)
      PROVE  DriverTypeOK'
  BY <1>3 DEF CheckDevice
<1>4. ASSUME NEW r \in Renderers, LockDevice(r)
      PROVE  DriverTypeOK'
  BY <1>4 DEF LockDevice
<1>5. ASSUME NEW r \in Renderers, graphic_init_surface(r)
      PROVE  DriverTypeOK'
  BY <1>5 DEF graphic_init_surface, ProcessEnds
<1>6. ASSUME NEW r \in Renderers, LoadQueues(r)
      PROVE  DriverTypeOK'
  BY <1>6 DEF LoadQueues
<1>7. ASSUME NEW r \in Renderers, create(r)
      PROVE  DriverTypeOK'
  BY <1>7 DEF create, ProcessEnds
<1>8. ASSUME NEW r \in Renderers, draw_frame(r)
      PROVE  DriverTypeOK'
  BY <1>8, NumbersAssumption DEF draw_frame
<1>9. ASSUME NEW r \in Renderers, LeaveLoop(r)
      PROVE  DriverTypeOK'
  BY <1>9 DEF LeaveLoop
<1>10. ASSUME NEW r \in Renderers, destroy(r)
       PROVE  DriverTypeOK'
  BY <1>10 DEF destroy
<1>11. ASSUME NEW r \in Renderers, driver_handler_deleter(r)
       PROVE  DriverTypeOK'
  <2>1. current_drivers_num' \in Nat
    <3>1. pc[r] # "off" /\ Goes(r, "off")
      BY <1>11 DEF driver_handler_deleter
    <3>2. Cardinality(Holders) # 0
      <4>1. r \in Holders
        BY <3>1 DEF Holders
      <4> QED
        BY <4>1, HoldersFinite, FS_EmptySet
    <3> QED
      BY <1>11, <3>2, HoldersFinite DEF driver_handler_deleter, CountInv
  <2> QED
    BY <1>11, <2>1 DEF driver_handler_deleter, IsLast
<1>12. ASSUME NEW r \in Renderers, GpuCompletes(r)
       PROVE  DriverTypeOK'
  BY <1>12, NumbersAssumption DEF GpuCompletes
<1>13. CASE DriverRests \/ UNCHANGED driverVars
  BY <1>13 DEF DriverRests, driverVars
<1> QED
  BY <1>1, <1>2, <1>3, <1>4, <1>5, <1>6, <1>7, <1>8, <1>9, <1>10, <1>11, <1>12, <1>13
     DEF DriverNext, RendererStep

LEMMA CountStep ==
    ASSUME DriverInv, [DriverNext]_driverVars
    PROVE  CountInv'
<1> USE DEF DriverInv, At
<1>1. ASSUME NEW r \in Renderers, NEW mode \in BOOLEAN, init_driver_handler(r, mode)
      PROVE  CountInv'
  <2>1. /\ Holders' = Holders \cup {r}
        /\ Cardinality(Holders') = Cardinality(Holders) + 1
    BY <1>1, HolderComes DEF init_driver_handler
  <2> QED
    BY <1>1, <2>1 DEF init_driver_handler, CountInv, deviceVars
<1>2. ASSUME NEW r \in Renderers, create_surface(r)
      PROVE  CountInv'
  <2>1. CASE ProcessEnds(r)
    BY <2>1 DEF ProcessEnds, CountInv, Holders, handleVars, deviceVars
  <2>2. CASE ~ProcessEnds(r)
    BY <1>2, <2>2, CountStays DEF create_surface, CountInv, deviceVars
  <2> QED
    BY <2>1, <2>2
<1>3. ASSUME NEW r \in Renderers, CheckDevice(r)
      PROVE  CountInv'
  BY <1>3, CountStays DEF CheckDevice, CountInv, deviceVars
<1>4. ASSUME NEW r \in Renderers, LockDevice(r)
      PROVE  CountInv'
  BY <1>4, CountStays DEF LockDevice, CountInv, deviceVars
<1>5. ASSUME NEW r \in Renderers, graphic_init_surface(r)
      PROVE  CountInv'
  <2>1. CASE ProcessEnds(r)
    BY <2>1 DEF ProcessEnds, CountInv, Holders, handleVars, deviceVars
  <2>2. CASE ~ProcessEnds(r)
    <3>1. r \in Holders
      BY <1>5 DEF graphic_init_surface, Holders
    <3>2. init_done
      BY <3>1 DEF CountInv
    <3> QED
      BY <1>5, <2>2, <3>2, CountStays DEF graphic_init_surface
  <2> QED
    BY <2>1, <2>2
<1>6. ASSUME NEW r \in Renderers, LoadQueues(r)
      PROVE  CountInv'
  BY <1>6, CountStays DEF LoadQueues, CountInv
<1>7. ASSUME NEW r \in Renderers, create(r)
      PROVE  CountInv'
  <2>1. CASE ProcessEnds(r)
    BY <2>1 DEF ProcessEnds, CountInv, Holders, handleVars, deviceVars
  <2>2. CASE ~ProcessEnds(r)
    BY <1>7, <2>2, CountStays DEF create, CountInv, deviceVars
  <2> QED
    BY <2>1, <2>2
<1>8. ASSUME NEW r \in Renderers, draw_frame(r)
      PROVE  CountInv'
  <2>1. Holders' = Holders
    BY <1>8, HolderStays DEF draw_frame, Holders
  <2> QED
    BY <1>8, <2>1 DEF draw_frame, CountInv, handleVars, deviceVars
<1>9. ASSUME NEW r \in Renderers, LeaveLoop(r)
      PROVE  CountInv'
  BY <1>9, CountStays DEF LeaveLoop, CountInv, deviceVars
<1>10. ASSUME NEW r \in Renderers, destroy(r)
       PROVE  CountInv'
  BY <1>10, CountStays DEF destroy, CountInv, deviceVars
<1>11. ASSUME NEW r \in Renderers, driver_handler_deleter(r)
       PROVE  CountInv'
  <2>1. /\ Cardinality(Holders') = Cardinality(Holders) - 1
        /\ Cardinality(Holders) = 1 => Holders' = {}
        /\ Cardinality(Holders) # 1 => Holders' # {}
    BY <1>11, HolderGoes DEF driver_handler_deleter
  <2>2. r \in Holders
    BY <1>11 DEF driver_handler_deleter, Holders
  <2> QED
    BY <1>11, <2>1, <2>2 DEF driver_handler_deleter, IsLast, CountInv, deviceVars
<1>12. ASSUME NEW r \in Renderers, GpuCompletes(r)
       PROVE  CountInv'
  BY <1>12 DEF GpuCompletes, CountInv, Holders, handleVars, deviceVars
<1>13. CASE DriverRests \/ UNCHANGED driverVars
  BY <1>13 DEF DriverRests, driverVars, CountInv, Holders, handleVars, deviceVars
<1> QED
  BY <1>1, <1>2, <1>3, <1>4, <1>5, <1>6, <1>7, <1>8, <1>9, <1>10, <1>11, <1>12, <1>13
     DEF DriverNext, RendererStep

\* The last renderer that goes leaves nobody who could use the device.
LEMMA LastIsAlone ==
    ASSUME DriverInv, NEW r \in Renderers, driver_handler_deleter(r), IsLast
    PROVE  \A other \in Renderers : pc'[other] = "off"
<1>1. pc[r] # "off" /\ Goes(r, "off")
  BY DEF driver_handler_deleter, At
<1>2. Holders' = {}
  BY <1>1, HolderGoes DEF DriverInv, CountInv, IsLast
<1> QED
  BY <1>2 DEF Holders

LEMMA PlacesStep ==
    ASSUME DriverInv, [DriverNext]_driverVars
    PROVE  OwnerInv' /\ UseInv' /\ QueueInv' /\ FitInv'
<1> DEFINE Goal == OwnerInv' /\ UseInv' /\ QueueInv' /\ FitInv'
<1> USE RenderersAssumption
        DEF DriverInv, DriverTypeOK, OwnerInv, UseInv, QueueInv, FitInv, Using, Goes, At,
            handleVars, deviceVars
<1>1. ASSUME NEW r \in Renderers, NEW mode \in BOOLEAN, init_driver_handler(r, mode)
      PROVE  Goal
  <2>1. ~init_done => \A other \in Renderers : pc[other] = "off"
    BY DEF CountInv, Holders
  <2>2. device => init_done
    BY DEF CountInv
  <2> QED
    BY <1>1, <2>1, <2>2 DEF init_driver_handler
<1>2. ASSUME NEW r \in Renderers, create_surface(r)
      PROVE  Goal
  BY <1>2 DEF create_surface, ProcessEnds
<1>3. ASSUME NEW r \in Renderers, CheckDevice(r)
      PROVE  Goal
  BY <1>3 DEF CheckDevice
<1>4. ASSUME NEW r \in Renderers, LockDevice(r)
      PROVE  Goal
  BY <1>4 DEF LockDevice
<1>5. ASSUME NEW r \in Renderers, graphic_init_surface(r)
      PROVE  Goal
  <2>1. CASE ProcessEnds(r)
    BY <2>1 DEF ProcessEnds
  <2>2. CASE ~ProcessEnds(r)
    <3>1. PICK i \in DOMAIN Gpus : IsBest(i, headless_mode) /\ physical' = i
      BY <1>5, <2>2 DEF graphic_init_surface
    <3>2. physical' # NoGpu /\ MayUse(Gpus[physical'], headless_mode)
      BY <3>1, BestMayBeUsed
    <3> QED
      BY <1>5, <2>2, <3>2 DEF graphic_init_surface
  <2> QED
    BY <2>1, <2>2
<1>6. ASSUME NEW r \in Renderers, LoadQueues(r)
      PROVE  Goal
  BY <1>6 DEF LoadQueues
<1>7. ASSUME NEW r \in Renderers, create(r)
      PROVE  Goal
  BY <1>7 DEF create, ProcessEnds
<1>8. ASSUME NEW r \in Renderers, draw_frame(r)
      PROVE  Goal
  BY <1>8, NumbersAssumption DEF draw_frame
<1>9. ASSUME NEW r \in Renderers, LeaveLoop(r)
      PROVE  Goal
  BY <1>9 DEF LeaveLoop
<1>10. ASSUME NEW r \in Renderers, destroy(r)
       PROVE  Goal
  BY <1>10 DEF destroy
<1>11. ASSUME NEW r \in Renderers, driver_handler_deleter(r)
       PROVE  Goal
  <2>1. CASE IsLast
    <3>1. \A other \in Renderers : pc'[other] = "off"
      BY <1>11, <2>1, LastIsAlone
    <3>2. \A other \in Renderers : jobs'[other] = 0
      BY <1>11, <2>1, <3>1 DEF driver_handler_deleter
    <3> QED
      BY <1>11, <2>1, <3>1, <3>2 DEF driver_handler_deleter
  <2>2. CASE ~IsLast
    BY <1>11, <2>2 DEF driver_handler_deleter
  <2> QED
    BY <2>1, <2>2
<1>12. ASSUME NEW r \in Renderers, GpuCompletes(r)
       PROVE  Goal
  BY <1>12, NumbersAssumption DEF GpuCompletes
<1>13. CASE DriverRests \/ UNCHANGED driverVars
  BY <1>13 DEF DriverRests, driverVars, MayUse
<1> HIDE DEF Goal
<1> QED
  BY <1>1, <1>2, <1>3, <1>4, <1>5, <1>6, <1>7, <1>8, <1>9, <1>10, <1>11, <1>12, <1>13
     DEF DriverNext, RendererStep, Goal

LEMMA DriverInvariant == DriverSpec => []DriverInv
<1>1. DriverInv /\ [DriverNext]_driverVars => DriverInv'
  BY TypeStep, CountStep, PlacesStep DEF DriverInv
<1> QED
  BY <1>1, DriverInvInit, PTL DEF DriverSpec

-----------------------------------------------------------------------------
\* Every variable of the driver keeps its type: in particular the counter of handles
\* never wraps below zero.
THEOREM DriverTypeCorrect == DriverSpec => []DriverTypeOK
<1>1. DriverInv => DriverTypeOK
  BY DEF DriverInv
<1> QED
  BY <1>1, DriverInvariant, PTL

\* The device is not destroyed under a renderer that draws, nor under the GPU that
\* still executes what a renderer submitted; the instance lasts as long as a handle.
THEOREM DeviceSafe == DriverSpec => []DeviceOutlivesUse
<1>1. DriverInv => DeviceOutlivesUse
  BY DEF DriverInv, CountInv, UseInv, Holders, Using, DeviceOutlivesUse
<1> QED
  BY <1>1, DriverInvariant, PTL

\* A renderer with a window draws on a GPU that can present, and one that waited for
\* the device to be made finds its queues.
THEOREM DeviceFits == DriverSpec => []DeviceFitsUse
<1>1. DriverInv => DeviceFitsUse
  BY DEF DriverInv, DriverTypeOK, UseInv, QueueInv, FitInv, Using, DeviceFitsUse
<1> QED
  BY <1>1, DriverInvariant, PTL

-----------------------------------------------------------------------------
(* The choice of the GPU.                                                  *)

\* The candidates that graphic_init_surface prefers to the one at i.
Preferred(i, mode) ==
    {j \in Candidates(mode) :
       \/ Weight(Gpus[j]) > Weight(Gpus[i])
       \/ Weight(Gpus[j]) = Weight(Gpus[i]) /\ j < i}

LEMMA PlaceType == \A i \in DOMAIN Gpus : i \in Nat /\ i \in 1..Len(Gpus)
  BY GpusAssumption

LEMMA WeightType ==
    ASSUME NEW i \in DOMAIN Gpus
    PROVE  Weight(Gpus[i]) \in Nat
<1>1. Gpus[i] \in [gfx : BOOLEAN, present : BOOLEAN, swapchain : BOOLEAN,
                  type : {"discrete", "integrated", "other"}, memory : Nat]
  BY GpusAssumption, PlaceType, ElementOfSeq
<1>2. Gpus[i].memory \in Nat
  BY <1>1
<1>3. (IF Gpus[i].type = "discrete" THEN DiscreteBias ELSE 0) \in Nat
  BY NumbersAssumption
<1> QED
  BY <1>2, <1>3 DEF Weight

\* Whom a candidate is preferred to, all are that it prefers are preferred to, but
\* not the candidate itself.
LEMMA PreferredShrinks ==
    ASSUME NEW mode \in BOOLEAN, NEW i \in Candidates(mode), NEW j \in Preferred(i, mode)
    PROVE  /\ Preferred(j, mode) \subseteq Preferred(i, mode)
           /\ Preferred(j, mode) # Preferred(i, mode)
<1>1. i \in DOMAIN Gpus /\ j \in DOMAIN Gpus /\ j \in Candidates(mode)
  BY DEF Candidates, Preferred
<1>2. \A k \in Candidates(mode) : k \in DOMAIN Gpus
  BY DEF Candidates
<1>3. \A k \in Candidates(mode) : k \in Nat /\ Weight(Gpus[k]) \in Nat
  BY <1>2, PlaceType, WeightType
<1>4. j \notin Preferred(j, mode)
  BY <1>1, <1>3 DEF Preferred
<1>5. ASSUME NEW k \in Preferred(j, mode)
      PROVE  k \in Preferred(i, mode)
  BY <1>1, <1>3, <1>5 DEF Preferred
<1> QED
  BY <1>4, <1>5

\* Whenever a GPU can be used, for windows or without, the loop over the devices
\* chooses one, and only one.
LEMMA OneGpuIsChosen ==
    \A mode \in BOOLEAN :
        Candidates(mode) # {} =>
            \E i \in DOMAIN Gpus :
                /\ IsBest(i, mode)
                /\ \A j \in DOMAIN Gpus : IsBest(j, mode) => j = i
<1> SUFFICES ASSUME NEW mode \in BOOLEAN, Candidates(mode) # {}
             PROVE  \E i \in DOMAIN Gpus :
                      /\ IsBest(i, mode)
                      /\ \A j \in DOMAIN Gpus : IsBest(j, mode) => j = i
  OBVIOUS
<1> DEFINE C == Candidates(mode)
           T == {Preferred(i, mode) : i \in C}
<1>1. \A k \in C : k \in DOMAIN Gpus /\ k \in Nat /\ Weight(Gpus[k]) \in Nat
  <2>1. \A k \in C : k \in DOMAIN Gpus
    BY DEF Candidates
  <2> QED
    BY <2>1, PlaceType, WeightType
<1>2. IsFiniteSet(C)
  <2>1. Len(Gpus) \in Nat /\ DOMAIN Gpus = 1..Len(Gpus)
    BY GpusAssumption
  <2>2. IsFiniteSet(1..Len(Gpus))
    BY <2>1, FS_Interval
  <2>3. C \in SUBSET (1..Len(Gpus))
    BY <2>1 DEF Candidates
  <2> QED
    BY <2>2, <2>3, FS_Subset
<1>3. IsWellFoundedOn(StrictSubsetOrdering(C), SUBSET C)
  BY <1>2, FS_StrictSubsetOrderingWellFounded, FS_FiniteSubsetsOfFinite
<1>4. T \subseteq SUBSET C /\ T # {}
  BY DEF Preferred
<1>5. PICK s \in T : \A t \in T : ~(<<t, s>> \in StrictSubsetOrdering(C))
  <2> HIDE DEF T, C
  <2> QED
    BY <1>3, <1>4, WFMin
<1>6. PICK i \in C : s = Preferred(i, mode)
  OBVIOUS
<1>7. Preferred(i, mode) = {}
  <2> SUFFICES ASSUME NEW j \in Preferred(i, mode)
               PROVE  FALSE
    OBVIOUS
  <2>1. /\ Preferred(j, mode) \subseteq Preferred(i, mode)
        /\ Preferred(j, mode) # Preferred(i, mode)
    BY PreferredShrinks
  <2>2. j \in C
    BY DEF Preferred
  <2>3. Preferred(j, mode) \in T /\ Preferred(j, mode) \subseteq C /\ s \subseteq C
    BY <1>4, <2>2
  <2>4. <<Preferred(j, mode), s>> \in StrictSubsetOrdering(C)
    BY <1>6, <2>1, <2>3 DEF StrictSubsetOrdering
  <2> QED
    BY <1>5, <2>3, <2>4
<1>8. IsBest(i, mode)
  <2> SUFFICES ASSUME NEW j \in C
               PROVE  \/ Weight(Gpus[j]) < Weight(Gpus[i])
                      \/ Weight(Gpus[j]) = Weight(Gpus[i]) /\ i <= j
    BY DEF IsBest
  <2>1. j \notin Preferred(i, mode)
    BY <1>7
  <2> QED
    BY <1>1, <2>1 DEF Preferred
<1>9. ASSUME NEW j \in DOMAIN Gpus, IsBest(j, mode)
      PROVE  j = i
  <2>1. j \in C /\ i \in C
    BY <1>9 DEF IsBest
  <2> QED
    BY <1>1, <1>8, <1>9, <2>1 DEF IsBest
<1> QED
  BY <1>1, <1>8, <1>9

-----------------------------------------------------------------------------
(* Progress, as far as it is a matter of safety.                           *)

\* Between the beginning of a constructor and its end, or in the destructor.
Underway(r) == pc[r] \notin {"off", "running"}

\* What a renderer waits for there: the mutex, or the device.
WaitsForMutex(r) == pc[r] \in {"lock", "release"} /\ init_mtx # NoOwner
WaitsForDevice(r) == pc[r] = "leaving" /\ jobs[r] > 0

\* The owner of init_mtx waits for nothing, so it can go on: it finds a GPU, or
\* ends the process.  Who waits for the device waits for submissions that are
\* executed whatever the renderers do, as the device is there.
DriverNotStuck ==
    \A r \in Renderers :
        /\ WaitsForMutex(r) =>
             \E other \in Renderers \ {r} :
                 /\ init_mtx = other
                 /\ pc[other] \in {"make", "load"}
        /\ WaitsForDevice(r) => device
        /\ pc[r] = "make" =>
             \/ headless[r] /\ ~headless_mode
             \/ Candidates(headless_mode) = {}
             \/ \E i \in DOMAIN Gpus : IsBest(i, headless_mode)

\* The steps a renderer still takes, with those of the GPU, until it runs or is gone.
StepsLeft(r) ==
    CASE pc[r] = "surface" -> 6
      [] pc[r] = "check" -> 5
      [] pc[r] = "lock" -> 4
      [] pc[r] = "make" -> 3
      [] pc[r] = "load" -> 2
      [] pc[r] = "create" -> 1
      [] pc[r] = "leaving" -> 2 + jobs[r]
      [] pc[r] = "release" -> 1
      [] OTHER -> 0

\* Whatever happens to a renderer that is underway brings it nearer to its end, and
\* init_mtx is not taken from who has it.
RenderersConverge ==
    [][/\ \A r \in Renderers :
            Underway(r) => \/ terminated'
                           \/ pc'[r] = pc[r] /\ jobs'[r] = jobs[r]
                           \/ StepsLeft(r)' < StepsLeft(r)
       /\ init_mtx # NoOwner => init_mtx' \in {init_mtx, NoOwner}]_driverVars

\* Nobody waits for somebody who waits: not for the mutex, and not for the device.
THEOREM DriverNeverStuck == DriverSpec => []DriverNotStuck
<1>1. DriverInv => DriverNotStuck
  <2> SUFFICES ASSUME DriverInv, NEW r \in Renderers
               PROVE  /\ WaitsForMutex(r) =>
                           \E other \in Renderers \ {r} :
                               init_mtx = other /\ pc[other] \in {"make", "load"}
                      /\ WaitsForDevice(r) => device
                      /\ pc[r] = "make" =>
                           \/ headless[r] /\ ~headless_mode
                           \/ Candidates(headless_mode) = {}
                           \/ \E i \in DOMAIN Gpus : IsBest(i, headless_mode)
    BY DEF DriverNotStuck
  <2>1. ASSUME WaitsForMutex(r)
        PROVE  \E other \in Renderers \ {r} :
                   init_mtx = other /\ pc[other] \in {"make", "load"}
    BY <2>1 DEF WaitsForMutex, DriverInv, DriverTypeOK, OwnerInv
  <2>2. WaitsForDevice(r) => device
    BY DEF WaitsForDevice, DriverInv, UseInv, Using
  <2>3. Candidates(headless_mode) = {} \/ \E i \in DOMAIN Gpus : IsBest(i, headless_mode)
    BY OneGpuIsChosen DEF DriverInv, DriverTypeOK
  <2> QED
    BY <2>1, <2>2, <2>3
<1> QED
  BY <1>1, DriverInvariant, PTL

LEMMA Nearer ==
    ASSUME DriverInv, NEW actor \in Renderers, NEW r \in Renderers, Underway(r),
           RendererStep(actor) \/ draw_frame(actor) \/ LeaveLoop(actor) \/ GpuCompletes(actor)
    PROVE  \/ terminated'
           \/ pc'[r] = pc[r] /\ jobs'[r] = jobs[r]
           \/ StepsLeft(r)' < StepsLeft(r)
<1> USE DEF DriverInv, DriverTypeOK, At, Goes, Underway, StepsLeft
<1>1. CASE create_surface(actor) \/ CheckDevice(actor) \/ LockDevice(actor)
             \/ LoadQueues(actor) \/ driver_handler_deleter(actor)
  BY <1>1 DEF create_surface, ProcessEnds, CheckDevice, LockDevice, LoadQueues,
              driver_handler_deleter
<1>2. CASE graphic_init_surface(actor) \/ create(actor)
  BY <1>2 DEF graphic_init_surface, create, ProcessEnds
<1>3. CASE destroy(actor)
  BY <1>3 DEF destroy
<1>4. CASE draw_frame(actor) \/ LeaveLoop(actor)
  BY <1>4 DEF draw_frame, LeaveLoop
<1>5. CASE GpuCompletes(actor)
  <2>1. /\ pc' = pc
        /\ jobs' = [jobs EXCEPT ![actor] = @ - 1]
        /\ jobs[actor] \in Nat /\ jobs[actor] > 0
    BY <1>5, NumbersAssumption DEF GpuCompletes
  <2>2. CASE r = actor
    <3>1. pc[r] = "leaving"
      BY <2>1, <2>2 DEF UseInv
    <3> QED
      BY <2>1, <2>2, <3>1
  <2>3. CASE r # actor
    BY <2>1, <2>3
  <2> QED
    BY <2>2, <2>3
<1> QED
  BY <1>1, <1>2, <1>3, <1>4, <1>5 DEF RendererStep

\* A renderer that is created, or destroyed, is done after at most six steps of its
\* own, or two and one of the GPU for each of its submissions: however many others
\* come and go meanwhile, none of them adds to its way or takes the mutex from it.
THEOREM RendererIsBounded == DriverSpec => RenderersConverge
<1> DEFINE Converges ==
             /\ \A r \in Renderers :
                  Underway(r) => \/ terminated'
                                 \/ pc'[r] = pc[r] /\ jobs'[r] = jobs[r]
                                 \/ StepsLeft(r)' < StepsLeft(r)
             /\ init_mtx # NoOwner => init_mtx' \in {init_mtx, NoOwner}
<1>1. DriverInv /\ [DriverNext]_driverVars => Converges
  <2> SUFFICES ASSUME DriverInv, [DriverNext]_driverVars
               PROVE  Converges
    OBVIOUS
  <2>1. ASSUME NEW actor \in Renderers,
               RendererStep(actor) \/ draw_frame(actor) \/ LeaveLoop(actor)
                 \/ GpuCompletes(actor)
        PROVE  Converges
    <3>1. init_mtx # NoOwner => init_mtx' \in {init_mtx, NoOwner}
      BY <2>1 DEF RendererStep, create_surface, ProcessEnds, CheckDevice, LockDevice,
                  graphic_init_surface, LoadQueues, create, destroy, driver_handler_deleter,
                  draw_frame, LeaveLoop, GpuCompletes
    <3> QED
      BY <2>1, <3>1, Nearer
  <2>2. ASSUME NEW actor \in Renderers, NEW mode \in BOOLEAN,
               init_driver_handler(actor, mode)
        PROVE  Converges
    BY <2>2 DEF init_driver_handler, Goes, At, Underway, DriverInv, DriverTypeOK
  <2>3. CASE DriverRests \/ UNCHANGED driverVars
    BY <2>3 DEF DriverRests, driverVars
  <2> HIDE DEF Converges
  <2> QED
    BY <2>1, <2>2, <2>3 DEF DriverNext
<1>2. DriverInv /\ [DriverNext]_driverVars => [Converges]_driverVars
  BY <1>1
<1> QED
  BY <1>2, DriverInvariant, PTL DEF DriverSpec, RenderersConverge
=============================================================================
