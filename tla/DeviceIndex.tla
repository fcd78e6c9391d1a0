----------------------------- MODULE DeviceIndex ----------------------------
(***************************************************************************)
(* How an index becomes a device: the createFor... functions and init() of *)
(* src/EasyCL.cpp, and DevicesInfo (src/DevicesInfo.cpp), which counts and *)
(* describes the devices the others open.                                  *)
(*                                                                         *)
(* clGetDeviceIDs fails on a platform that has no device of the wanted     *)
(* type.  Some of the functions go on to the next platform then, others    *)
(* throw.  clGetPlatformIDs fills an array of ten platforms, clGetDeviceIDs*)
(* one of a hundred devices, and both report how many there are, which may *)
(* be more; the functions then read entries nothing has filled, as most of *)
(* them do for a negative index.                                           *)
(***************************************************************************)
EXTENDS Integers, Sequences, SequencesExt

CONSTANTS MaxPlatforms, MaxDevices, \* bounds: platforms, devices of one
          MaxIndex, MaxOffset,      \* bounds: indexes asked for, CL_GPUOFFSET
          Capacity,                 \* platforms the array has room for: ten
          DeviceRoom                \* devices the array has room for: a hundred

ASSUME IndexAssumption ==
  /\ {MaxPlatforms, MaxDevices, MaxIndex, MaxOffset} \subseteq Nat
  /\ {Capacity, DeviceRoom} \subseteq Nat \ {0}

VARIABLES platforms, \* the kinds of the devices of each platform, in order
          gpuOffset, \* CL_GPUOFFSET, 0 if it is not set
          chosen     \* the last call, and the device it chose

indexVars == <<platforms, gpuOffset, chosen>>

\* GPUs and accelerators, and others
Kinds == {"gpu", "cpu"}
Types == {"gpu", "all"}
NoDevice == <<>>
Undefined == <<0, 0>> \* whatever comes of an entry nothing has filled

(* clGetDeviceIDs(platform p, types); empty: it fails.                     *)
DeviceIds(p, types) ==
  LET Ids[i \in 0 .. Len(platforms[p])] ==
        IF i = 0 THEN <<>>
        ELSE IF types = "all" \/ platforms[p][i] = "gpu" THEN Append(Ids[i - 1], <<p, i>>)
        ELSE Ids[i - 1]
  IN  Ids[Len(platforms[p])]

(* The array of each platform after it: one made to measure, and one of    *)
(* DeviceRoom entries, which are not enough for every platform.            *)
Measured(types) == [p \in DOMAIN platforms |-> DeviceIds(p, types)]
Fixed(types) ==
  [p \in DOMAIN platforms |->
     LET ids == DeviceIds(p, types)
     IN  [i \in DOMAIN ids |-> IF i <= DeviceRoom THEN ids[i] ELSE Undefined]]

Entry(devices, index) == IF index < 0 THEN Undefined ELSE devices[index + 1]
Nth(devices, index) == IF index < Len(devices) THEN Entry(devices, index) ELSE NoDevice

(* Slip: the devices of earlier platforms are not counted.                 *)
PassedNone(types) == [p \in 0 .. Len(platforms) |-> 0]

(* currentGpuIndex, when a loop over the platforms is done with each.      *)
Passed(types) ==
  LET Count[p \in 0 .. Len(platforms)] ==
        IF p = 0 THEN 0 ELSE Count[p - 1] + Len(DeviceIds(p, types))
  IN  Count

(* Which of the devices of platform p the loop is looking for; is it there?*)
Remaining(p, index, types) == index - Passed(types)[p - 1]
Offers(p, index, types) ==
  DeviceIds(p, types) # <<>> /\ Remaining(p, index, types) < Len(DeviceIds(p, types))

(* Slip: the last platform of a full array is taken for one beyond it.     *)
EndingShort(ends, index, types, devices) ==
  LET p == Min(ends)
  IN  IF ends = {} THEN NoDevice
      ELSE IF p >= Capacity THEN Undefined
      ELSE IF devices[p] = <<>> THEN NoDevice
      ELSE Entry(devices[p], Remaining(p, index, types))

(* What a loop comes to that ends at the first of these platforms and has  *)
(* these arrays of devices.                                                *)
Ending(ends, index, types, devices) ==
  LET p == Min(ends)
  IN  IF ends = {} THEN NoDevice
      ELSE IF p > Capacity THEN Undefined
      ELSE IF devices[p] = <<>> THEN NoDevice
      ELSE Entry(devices[p], Remaining(p, index, types))

(* The loop that goes on when a platform fails.                            *)
Skipping(index, types) ==
  Ending({p \in DOMAIN platforms : p > Capacity \/ Offers(p, index, types)},
         index, types, Fixed(types))

(* DevicesInfo::getDeviceIds: the same loop, but it throws.                *)
GetDeviceIds(index, types) ==
  Ending({p \in DOMAIN platforms : \/ p > Capacity \/ DeviceIds(p, types) = <<>>
                                   \/ Offers(p, index, types)},
         index, types, Measured(types))

(* DevicesInfo::getNumDevices, which goes on when a platform fails, as it  *)
(* may on an entry that nothing has filled.                                *)
GetNumDevices(types) ==
  LET Count[p \in 0 .. Len(platforms)] ==
        IF p = 0 THEN 0
        ELSE Count[p - 1] + (IF p > Capacity THEN 0 ELSE Len(DeviceIds(p, types)))
  IN  Count[Len(platforms)]

(* Slip: the offset is not taken off.                                      *)
GetNumGpusAll == GetNumDevices("gpu")
GetNumGpus == LET n == GetNumDevices("gpu") - gpuOffset IN IF n < 0 THEN 0 ELSE n

CreateForIndexedGpu(gpu) == Skipping(gpu + gpuOffset, "gpu")
CreateForIndexedDevice(device) == Skipping(device, "all")

\* Slip: the offset is not added
GetIdForIndexedGpuUnshifted(gpu) == GetDeviceIds(gpu, "gpu")

GetIdForIndexedGpu(gpu) == GetDeviceIds(gpu + gpuOffset, "gpu")
GetIdForIndexedDevice(device) == GetDeviceIds(device, "all")

(* A device of one platform, by its place in that platform's array.        *)
PlatformDevice(platform, device, devices) ==
  IF platforms = <<>> \/ platform >= Len(platforms) THEN NoDevice
  ELSE IF platform \notin 0 .. Capacity - 1 THEN Undefined
  ELSE IF devices[platform + 1] = <<>> THEN NoDevice
  ELSE Nth(devices[platform + 1], device)

CreateForPlatformDeviceIndexes(platform, device) ==
  PlatformDevice(platform, device, Fixed("all"))

(* This one refuses negative indexes.                                      *)
GetIdForIndexedPlatformDevice(platform, device, types) ==
  IF platform < 0 \/ (platform < Capacity /\ device < 0) THEN NoDevice
  ELSE PlatformDevice(platform, device, Fixed(types))

(* Slip: only a GPU will do.                                               *)
FirstGpuOnly == CreateForIndexedGpu(0)
CreateForFirstGpuOtherwiseCpu ==
  IF CreateForIndexedGpu(0) # NoDevice THEN CreateForIndexedGpu(0)
                                       ELSE CreateForPlatformDeviceIndexes(0, 0)

(* init(): EasyCL(gpu) and gpu(), which ask the first platform only.       *)
InitGpu(gpuIndex) == PlatformDevice(0, gpuIndex, Measured("gpu"))

Configurations == BoundedSeq(BoundedSeq(Kinds, MaxDevices), MaxPlatforms)

DeviceInit == /\ platforms \in Configurations
              /\ gpuOffset \in -MaxOffset .. MaxOffset
              /\ chosen = [call |-> "none", platform |-> 0, types |-> "all", index |-> 0,
                           device |-> NoDevice]

PlatformCall(function, platform, types, index, device) ==
  /\ chosen' = [call |-> function, platform |-> platform, types |-> types,
                index |-> index, device |-> device]
  /\ UNCHANGED <<platforms, gpuOffset>>
Call(function, index, device) == PlatformCall(function, 0, "all", index, device)

DeviceNext ==
  \/ Call("createForFirstGpuOtherwiseCpu", 0, CreateForFirstGpuOtherwiseCpu)
  \/ \E index \in -1 .. MaxIndex :
       \/ Call("createForIndexedGpu", index, CreateForIndexedGpu(index))
       \/ Call("createForIndexedDevice", index, CreateForIndexedDevice(index))
       \/ Call("getGpuInfo", index, GetIdForIndexedGpu(index))
       \/ Call("getDeviceInfo", index, GetIdForIndexedDevice(index))
       \/ Call("gpu", index, InitGpu(index))
       \/ \E platform \in -1 .. MaxPlatforms :
            \/ PlatformCall("createForPlatformDeviceIndexes", platform, "all", index,
                            CreateForPlatformDeviceIndexes(platform, index))
            \/ \E types \in Types :
                 PlatformCall("getIdForIndexedPlatformDevice", platform, types, index,
                              GetIdForIndexedPlatformDevice(platform, index, types))

DeviceSpec == DeviceInit /\ [][DeviceNext]_indexVars
-----------------------------------------------------------------------------
(* All devices of the platforms there is room for, one platform after the  *)
(* other; a device there is no room for is undefined.                      *)
Known == {p \in DOMAIN platforms : p <= Capacity}
Listed(types) == FlattenSeq([p \in Known |-> Fixed(types)[p]])

(* The entry of that list the last call is about; whether every platform   *)
(* is in the array and no index is negative; whether every device is in an *)
(* array.                                                                  *)
Position ==
  IF chosen.call \in {"createForIndexedGpu", "getGpuInfo", "createForFirstGpuOtherwiseCpu"}
  THEN chosen.index + gpuOffset ELSE chosen.index
Regular == /\ Len(platforms) <= Capacity
           /\ chosen.platform >= 0 /\ chosen.index >= 0 /\ Position >= 0
Roomy == \A p \in DOMAIN platforms : Len(platforms[p]) <= DeviceRoom

(* Device i is the i-th of all devices (of all GPUs, shifted by            *)
(* CL_GPUOFFSET), whatever platforms have none (README.md:87, :100); if it *)
(* is one its array has no room for, an entry nothing has filled.          *)
IndexedIsListed ==
  /\ chosen.call = "createForIndexedGpu" /\ Regular =>
       chosen.device = Nth(Listed("gpu"), Position)
  /\ chosen.call = "createForIndexedDevice" /\ Regular =>
       chosen.device = Nth(Listed("all"), Position)

(* The last call is about no device of a platform there is room for, or    *)
(* about one its array has no room for.                                    *)
Beyond(types) ==
  Position < Len(Listed(types)) => Listed(types)[Position + 1] = Undefined

(* An entry that nothing has filled is not read while looking for a device *)
(* there is room for: platforms beyond the tenth, and devices beyond the   *)
(* hundredth of their platform, matter only to a program that asks for     *)
(* them; to DevicesInfo, whose arrays are made to measure, the platforms   *)
(* alone; and getIdForIndexedPlatformDevice guards against every negative  *)
(* index, where the others do not (Position >= 0).                         *)
KnownDevicesReached ==
  chosen.device = Undefined =>
    /\ chosen.call = "getIdForIndexedPlatformDevice" =>
         chosen.platform >= Capacity \/ chosen.index >= DeviceRoom
    /\ chosen.call = "createForPlatformDeviceIndexes" /\ Position >= 0 =>
         chosen.platform \notin 0 .. Capacity - 1 \/ chosen.index >= DeviceRoom
    /\ Position >= 0 =>
         /\ chosen.call # "gpu"
         /\ chosen.call = "createForIndexedGpu" => Beyond("gpu")
         /\ chosen.call = "createForIndexedDevice" => Beyond("all")
         /\ chosen.call = "getGpuInfo" => Position >= Len(Listed("gpu"))
         /\ chosen.call = "getDeviceInfo" => Position >= Len(Listed("all"))
         /\ chosen.call = "createForFirstGpuOtherwiseCpu" =>
              /\ Beyond("gpu")
              /\ Position >= Len(Listed("gpu")) => Len(platforms) > Capacity

(* A program that counts the GPUs, or the devices, can open exactly those  *)
(* below the count while no array of devices is too short, and describe    *)
(* them, whatever the arrays, when no platform is without any: getDeviceIds*)
(* throws at such a platform, getNumDevices does not.                      *)
CountedIsOpened ==
  /\ chosen.call = "createForIndexedGpu" /\ Regular =>
       /\ chosen.index < GetNumGpus <=> chosen.device # NoDevice
       /\ Roomy => chosen.device # Undefined
  /\ chosen.call = "createForIndexedDevice" /\ Regular =>
       /\ chosen.index < GetNumDevices("all") <=> chosen.device # NoDevice
       /\ Roomy => chosen.device # Undefined
  /\ /\ chosen.call = "getGpuInfo" /\ Regular
     /\ \A p \in DOMAIN platforms : DeviceIds(p, "gpu") # <<>>
     => (chosen.index < GetNumGpus <=> chosen.device \notin {NoDevice, Undefined})

(* An index means one device, whoever is asked for it: what getGpuInfo,    *)
(* getDeviceInfo and getIdForIndexedPlatformDevice describe is what        *)
(* createFor... opens, and gpu() and EasyCL(gpu) open it too, but do not   *)
(* look at CL_GPUOFFSET; unless the array of createFor... has no room for  *)
(* it.  A device of a platform is in the place among all devices that      *)
(* those of the platforms before it leave.                                 *)
IndexMeansOneDevice ==
  chosen.device # NoDevice /\ Regular =>
    /\ chosen.call = "getGpuInfo" =>
         CreateForIndexedGpu(chosen.index) \in {chosen.device, Undefined}
    /\ chosen.call = "getDeviceInfo" =>
         CreateForIndexedDevice(chosen.index) \in {chosen.device, Undefined}
    /\ chosen.call = "gpu" /\ gpuOffset = 0 =>
         CreateForIndexedGpu(chosen.index) \in {chosen.device, Undefined}
    /\ chosen.call = "getIdForIndexedPlatformDevice" /\ chosen.types = "all" =>
         chosen.device = CreateForPlatformDeviceIndexes(chosen.platform, chosen.index)
    /\ chosen.call = "createForPlatformDeviceIndexes" =>
         chosen.device = CreateForIndexedDevice(Passed("all")[chosen.platform] + chosen.index)

(* A machine whose first platform works gives some device to a program     *)
(* that takes a CPU when there is no GPU, and the GPU when there is one    *)
(* (which no array is too short for).                                      *)
FirstGpuOtherwiseCpu ==
  chosen.call = "createForFirstGpuOtherwiseCpu" /\ Regular =>
    /\ platforms # <<>> /\ platforms[1] # <<>> => chosen.device # NoDevice
    /\ GetNumGpus > 0 /\ Roomy => platforms[chosen.device[1]][chosen.device[2]] = "gpu"
=============================================================================
