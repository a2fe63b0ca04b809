---------------------------- MODULE IpcTopology -----------------------------
\* The bootstrap topology of the service channels: the endpoint policy of the
\* ABI (who sends, who receives, under which contract and with which message),
\* Core building the registry from it at boot, the directory lookups with which
\* each service image finds its capabilities, the channels a program gets later
\* on, and where Core sends a message that comes in on an endpoint.
EXTENDS Integers, Sequences, FiniteSets, SequencesExt

CONSTANTS
    Pools,         \* how many frames Core may have for the queues
    PAGE           \* DIRECTORY_RECORDS_PER_PAGE

VARIABLES
    sizeof,    \* the bytes of each message type
    enabled,   \* whether a network is configured
    pool,      \* the frames Core booted with
    phase,     \* "boot", "ready" or "failed"
    raw,       \* the next endpoint of the policy to register
    frames,    \* the free frames
    ends,      \* the endpoints of the registry
    caps,      \* the capabilities of the registry, in slot order
    bound,     \* the endpoints whose read event the network interrupt signals
    package,   \* the capability Core keeps for package requests
    program,   \* whether a program has its surface channels
    image,     \* the service whose image is starting, or "none"
    cache,     \* the directory records that image has read
    cursor,    \* the position of its walk, -1 once it is done
    found,     \* what its lookups have found so far
    sent       \* the endpoint it sent on last and where the message went

vars == <<sizeof, enabled, pool, phase, raw, frames, ends, caps, bound, package, program,
          image, cache, cursor, found, sent>>

-----------------------------------------------------------------------------
(* The policy of the ABI.                                                   *)

\* The services in the order of their index.
Services == <<"Input", "Display", "Terminal", "Session", "Flow", "Storage", "Network", "Fetch",
              "Device", "User", "Shell", "LockScreen", "Atrium", "System">>

\* The name under which the directory lists a service.
Names == [input |-> "Input", display |-> "Display", terminal |-> "Terminal",
          session |-> "Session", flow |-> "Flow", storage |-> "Storage",
          network |-> "Network", fetch |-> "Fetch", device |-> "Device", user |-> "User",
          shell |-> "Shell", lockscreen |-> "LockScreen", atrium |-> "Atrium",
          system |-> "System"]

Endpoints == <<
  "InputToTerminal", "TerminalToDisplay", "TerminalToSession",
  "SessionToTerminal", "SessionToFlow", "FlowToSession", "StorageToCore",
  "CoreToStorage", "FlowToStorage", "StorageToFlow", "NetworkToCore",
  "CoreToNetwork", "FlowToNetwork", "NetworkToFlow", "FlowToFetch",
  "FetchToFlow", "FetchToStorage", "StorageToFetch", "FetchToNetwork",
  "NetworkToFetch", "CoreToStoragePackage", "StoragePackageToCore",
  "StorageMapToCore", "CoreToStorageMap", "FlowToDevice", "DeviceToFlow",
  "DeviceToCore", "CoreToDevice", "FlowToUser", "UserToFlow",
  "UserToStorage", "StorageToUser", "InputToShell", "ShellToTerminal",
  "ShellToDisplay", "ShellToLockScreen", "LockScreenToShell", "ShellToUser",
  "UserToShell", "ShellToFlow", "FlowToShell", "InputToAtrium",
  "AtriumToTerminal", "AtriumToLockScreen", "LockScreenToAtrium",
  "AtriumToShell", "ShellToAtrium", "AtriumToDisplay",
  "AtriumToDisplayControl", "DisplayToAtrium", "LockScreenToDisplay",
  "LockScreenToDisplayControl", "DisplayToLockScreen",
  "AtriumToLockScreenControl", "LockScreenToShellAuth",
  "ShellToLockScreenAuth", "TerminalToAtriumSurface",
  "AtriumToTerminalSurface", "AtriumToTerminalSurfaceInput",
  "TerminalToAtriumSurfaceRender", "AtriumToDisplaySurfaceRender",
  "SystemToAtriumSurface", "AtriumToSystemSurface",
  "AtriumToSystemSurfaceInput", "SystemToAtriumSurfaceDraw",
  "AtriumToInputControl", "AtriumToUser", "UserToAtrium">>

Produces == [
  Input |-> {"InputToTerminal", "InputToShell", "InputToAtrium"},
  Terminal |-> {
      "TerminalToDisplay", "TerminalToSession", "TerminalToAtriumSurface",
      "TerminalToAtriumSurfaceRender"},
  Session |-> {"SessionToTerminal", "SessionToFlow"},
  Flow |-> {
      "FlowToSession", "FlowToStorage", "FlowToNetwork", "FlowToFetch",
      "FlowToDevice", "FlowToUser", "FlowToShell"},
  Storage |-> {
      "StorageToCore", "CoreToStorage", "StorageToFlow", "StorageToFetch",
      "CoreToStoragePackage", "StoragePackageToCore", "StorageMapToCore",
      "CoreToStorageMap", "StorageToUser"},
  Network |-> {
      "NetworkToCore", "NetworkToFlow", "CoreToNetwork", "NetworkToFetch"},
  Fetch |-> {"FetchToFlow", "FetchToStorage", "FetchToNetwork"},
  Device |-> {"DeviceToFlow", "DeviceToCore", "CoreToDevice"},
  User |-> {"UserToFlow", "UserToStorage", "UserToShell", "UserToAtrium"},
  Shell |-> {
      "ShellToTerminal", "ShellToDisplay", "ShellToLockScreen",
      "ShellToUser", "ShellToFlow", "ShellToAtrium", "ShellToLockScreenAuth"},
  LockScreen |-> {
      "LockScreenToShell", "LockScreenToAtrium", "LockScreenToDisplay",
      "LockScreenToDisplayControl", "LockScreenToShellAuth"},
  Atrium |-> {
      "AtriumToTerminal", "AtriumToLockScreen", "AtriumToShell",
      "AtriumToDisplay", "AtriumToDisplayControl",
      "AtriumToLockScreenControl", "AtriumToTerminalSurface",
      "AtriumToTerminalSurfaceInput", "AtriumToDisplaySurfaceRender",
      "AtriumToSystemSurface", "AtriumToSystemSurfaceInput",
      "AtriumToInputControl", "AtriumToUser"},
  Display |-> {"DisplayToAtrium", "DisplayToLockScreen"},
  System |-> {"SystemToAtriumSurface", "SystemToAtriumSurfaceDraw"}]

Consumes == [
  Terminal |-> {
      "InputToTerminal", "SessionToTerminal", "ShellToTerminal",
      "AtriumToTerminal", "AtriumToTerminalSurface",
      "AtriumToTerminalSurfaceInput"},
  Display |-> {
      "TerminalToDisplay", "ShellToDisplay", "AtriumToDisplay",
      "AtriumToDisplayControl", "LockScreenToDisplay",
      "LockScreenToDisplayControl", "AtriumToDisplaySurfaceRender"},
  Session |-> {"TerminalToSession", "FlowToSession"},
  Flow |-> {
      "SessionToFlow", "StorageToFlow", "NetworkToFlow", "FetchToFlow",
      "DeviceToFlow", "UserToFlow", "ShellToFlow"},
  Storage |-> {
      "StorageToCore", "CoreToStorage", "FlowToStorage",
      "CoreToStoragePackage", "StoragePackageToCore", "StorageMapToCore",
      "CoreToStorageMap", "UserToStorage"},
  Network |-> {"NetworkToCore", "CoreToNetwork", "FlowToNetwork"},
  Fetch |-> {
      "FlowToFetch", "FetchToStorage", "FetchToNetwork", "StorageToFetch",
      "NetworkToFetch"},
  Device |-> {"FlowToDevice", "DeviceToCore", "CoreToDevice"},
  User |-> {"FlowToUser", "StorageToUser", "ShellToUser", "AtriumToUser"},
  Shell |-> {
      "InputToShell", "LockScreenToShell", "UserToShell", "FlowToShell",
      "AtriumToShell", "LockScreenToShellAuth"},
  LockScreen |-> {
      "ShellToLockScreen", "AtriumToLockScreen", "DisplayToLockScreen",
      "AtriumToLockScreenControl", "ShellToLockScreenAuth"},
  Atrium |-> {
      "InputToAtrium", "LockScreenToAtrium", "ShellToAtrium",
      "DisplayToAtrium", "TerminalToAtriumSurface",
      "TerminalToAtriumSurfaceRender", "SystemToAtriumSurface",
      "SystemToAtriumSurfaceDraw", "UserToAtrium"},
  System |-> {"AtriumToSystemSurface", "AtriumToSystemSurfaceInput"},
  Input |-> {"AtriumToInputControl"}]

TypedContracts == [
  STORAGE_REQUEST |-> {"StorageToCore"},
  STORAGE_RESPONSE |-> {"CoreToStorage"},
  PACKAGE_REQUEST |-> {"CoreToStoragePackage"},
  PACKAGE_RESPONSE |-> {"StoragePackageToCore"},
  STORAGE_MAP_REQUEST |-> {"StorageMapToCore"},
  STORAGE_MAP_RESPONSE |-> {"CoreToStorageMap"},
  DEVICE_REQUEST |-> {"DeviceToCore", "FlowToDevice"},
  DEVICE_RESPONSE |-> {"CoreToDevice", "DeviceToFlow"},
  GUI_INPUT |-> {
      "InputToShell", "ShellToTerminal", "InputToAtrium",
      "AtriumToTerminal", "AtriumToLockScreen"},
  GUI_DRAW |-> {"ShellToDisplay", "AtriumToDisplay", "LockScreenToDisplay"},
  GUI_HOOK |-> {
      "ShellToLockScreen", "LockScreenToShell", "FlowToShell",
      "LockScreenToAtrium", "AtriumToLockScreenControl"},
  GUI_SESSION |-> {"ShellToFlow", "ShellToAtrium"},
  GUI_USER_REQUEST |-> {"ShellToUser", "LockScreenToShellAuth"},
  GUI_USER_RESPONSE |-> {"UserToShell", "ShellToLockScreenAuth"},
  ATRIUM_CONTROL |-> {"AtriumToShell"},
  INPUT_SETTINGS |-> {"AtriumToInputControl"},
  ATRIUM_SURFACE_REQUEST |-> {
      "TerminalToAtriumSurface", "SystemToAtriumSurface"},
  ATRIUM_SURFACE_RESPONSE |-> {
      "AtriumToTerminalSurface", "AtriumToSystemSurface"},
  ATRIUM_SURFACE_INPUT |-> {
      "AtriumToTerminalSurfaceInput", "AtriumToSystemSurfaceInput"},
  RENDER |-> {"TerminalToAtriumSurfaceRender", "AtriumToDisplaySurfaceRender"},
  GUI_SURFACE |-> {
      "AtriumToDisplayControl", "DisplayToAtrium",
      "LockScreenToDisplayControl", "DisplayToLockScreen"},
  ATRIUM_SURFACE_DRAW |-> {"SystemToAtriumSurfaceDraw"},
  ATRIUM_SETTINGS_REQUEST |-> {"AtriumToUser"},
  ATRIUM_SETTINGS_RESPONSE |-> {"UserToAtrium"}]

TypedSizes == [
  InputSettings |-> {"AtriumToInputControl"},
  AtriumSurfaceRequest |-> {
      "SystemToAtriumSurface", "TerminalToAtriumSurface"},
  AtriumSurfaceResponse |-> {
      "AtriumToSystemSurface", "AtriumToTerminalSurface"},
  AtriumSurfaceInput |-> {
      "AtriumToSystemSurfaceInput", "AtriumToTerminalSurfaceInput"},
  GuiSceneOp |-> {
      "SystemToAtriumSurfaceDraw", "AtriumToDisplay", "LockScreenToDisplay"},
  InputMessage |-> {"InputToAtrium", "AtriumToTerminal", "AtriumToLockScreen"},
  GuiHook |-> {"LockScreenToAtrium", "AtriumToLockScreenControl"},
  AtriumControl |-> {"AtriumToShell"},
  GuiTextGridRow |-> {
      "TerminalToAtriumSurfaceRender", "AtriumToDisplaySurfaceRender"},
  GuiSessionContext |-> {"ShellToAtrium"},
  GuiSurfaceRequest |-> {
      "AtriumToDisplayControl", "LockScreenToDisplayControl"},
  GuiSurfaceResponse |-> {"DisplayToAtrium", "DisplayToLockScreen"},
  UserRequest |-> {"LockScreenToShellAuth"},
  UserResponse |-> {"ShellToLockScreenAuth"},
  StorageRequest |-> {"StorageToCore"},
  StorageResponse |-> {"CoreToStorage"},
  PackageRequest |-> {"CoreToStoragePackage"},
  PackageResponse |-> {"StoragePackageToCore"},
  StorageMapRequest |-> {"StorageMapToCore"},
  StorageMapResponse |-> {"CoreToStorageMap"},
  DeviceRequest |-> {"DeviceToCore", "FlowToDevice"},
  DeviceResponse |-> {"CoreToDevice", "DeviceToFlow"},
  AtriumSettingsRequest |-> {"AtriumToUser"},
  AtriumSettingsResponse |-> {"UserToAtrium"}]

\* The message types, and the sizes they may have: all different or all alike,
\* the two extremes for a lookup that tells them apart by size.
MessageTypes == <<"InputMessage", "RenderMessage", "GuiSceneOp", "GuiSessionContext", "IpcBytes",
                  "NetworkPacketDescriptor", "InputSettings", "AtriumSurfaceRequest",
                  "AtriumSurfaceResponse", "AtriumSurfaceInput", "GuiHook", "AtriumControl",
                  "GuiTextGridRow", "GuiSurfaceRequest", "GuiSurfaceResponse", "UserRequest",
                  "UserResponse", "StorageRequest", "StorageResponse", "PackageRequest",
                  "PackageResponse", "StorageMapRequest", "StorageMapResponse", "DeviceRequest",
                  "DeviceResponse", "AtriumSettingsRequest", "AtriumSettingsResponse">>
Sizes == {[t \in Range(MessageTypes) |-> 1],
          [t \in Range(MessageTypes) |-> CHOOSE i \in DOMAIN MessageTypes : MessageTypes[i] = t]}

InputIds == {0, 32, 33, 41, 42, 43}
RenderIds == {1, 59, 60}
GuiIds == {34, 47, 50, 64}
ContextIds == {39, 46}
PacketIds == {10, 11}
BytesIds == 2 .. 5 \cup 8 .. 9 \cup 12 .. 19 \cup 24 .. 25 \cup 28 .. 31 \cup 35 .. 38
            \cup {40, 44, 45, 48, 49} \cup 51 .. 58 \cup 61 .. 63 \cup 65 .. 67

\* The class of messages of an endpoint, by its index.
ipc_message_type(i) ==
    CASE i \in InputIds -> "Input"
      [] i \in RenderIds -> "Render"
      [] i \in GuiIds -> "Gui"
      [] i \in ContextIds -> "SessionContext"
      [] i \in BytesIds -> "Bytes"
      [] i \in PacketIds -> "Packet"
      [] OTHER -> "None"

\* The entry of a table that lists an endpoint, or a default.
Entry(table, e, default) ==
    IF \E k \in DOMAIN table : e \in table[k]
    THEN CHOOSE k \in DOMAIN table : e \in table[k] ELSE default

from_index(i) == Endpoints[i + 1]

ipc_contract_id(i) ==
    Entry(TypedContracts, from_index(i),
          [Input |-> "INPUT", Render |-> "RENDER", Gui |-> "GUI_DRAW",
           SessionContext |-> "GUI_SESSION", Bytes |-> "BYTES", Packet |-> "PACKET",
           None |-> "None"][ipc_message_type(i)])

\* The message type whose size the endpoint has.
ipc_message_size(i) ==
    Entry(TypedSizes, from_index(i),
          [Input |-> "InputMessage", Render |-> "RenderMessage", Gui |-> "GuiSceneOp",
           SessionContext |-> "GuiSessionContext", Bytes |-> "IpcBytes",
           Packet |-> "NetworkPacketDescriptor", None |-> "None"][ipc_message_type(i)])

bootstrap_queue_capacity(i) ==
    IF from_index(i) \in {"FlowToDevice", "DeviceToFlow"} THEN 8
    ELSE [Input |-> 32, Render |-> 1, Gui |-> 8, SessionContext |-> 8, Bytes |-> 8,
          Packet |-> 1, None |-> 1][ipc_message_type(i)]

-----------------------------------------------------------------------------
(* Core builds the registry.                                                *)

ToCore == {"StorageToCore", "NetworkToCore", "DeviceToCore", "StoragePackageToCore",
           "StorageMapToCore"}
FromCore == {"CoreToStorage", "CoreToNetwork", "CoreToDevice", "CoreToStoragePackage",
             "CoreToStorageMap"}

\* The service on one side of an endpoint: Core where the policy names Core's
\* partner on both sides, the receiver the policy misnames for two endpoints.
dynamic_endpoint_peer(e, isProducer) ==
    CASE e \in ToCore /\ ~isProducer -> "Core"
      [] e \in FromCore /\ isProducer -> "Core"
      [] e = "FetchToStorage" /\ ~isProducer -> "Storage"
      [] e = "FetchToNetwork" /\ ~isProducer -> "Network"
      [] OTHER -> Entry(IF isProducer THEN Produces ELSE Consumes, e, "None")

Policy(i) ==
    [producer |-> dynamic_endpoint_peer(from_index(i), TRUE),
     consumer |-> dynamic_endpoint_peer(from_index(i), FALSE),
     contract |-> ipc_contract_id(i), type |-> ipc_message_size(i),
     capacity |-> bootstrap_queue_capacity(i)]

\* The frames of the queues of some endpoints, one for each message.
Frames(s) ==
    LET sum[n \in 0 .. Len(s)] == IF n = 0 THEN 0 ELSE sum[n - 1] + s[n].capacity
    IN  sum[Len(s)]

Init ==
    /\ sizeof \in Sizes /\ enabled \in BOOLEAN /\ pool \in Pools
    /\ phase = "boot" /\ raw = 0 /\ frames = pool
    /\ ends = <<>> /\ caps = <<>> /\ bound = {} /\ package = 0 /\ program = FALSE
    /\ image = "none" /\ cache = <<>> /\ cursor = 0 /\ found = <<>> /\ sent = <<>>

Grant(owner, end, rights) == [owner |-> owner, end |-> end, rights |-> rights]

\* The capabilities of a new endpoint: Core's first, then each service's.
Grants(end, e) ==
    LET side(s) == (IF e.producer = s THEN <<Grant(s, end, "Send")>> ELSE <<>>)
                   \o (IF e.consumer = s THEN <<Grant(s, end, "Receive")>> ELSE <<>>)
    IN  side("Core") \o FlattenSeq([i \in 1 .. Len(Services) |-> side(Services[i])])

RegisterEndpoint ==
    /\ phase = "boot" /\ raw < Len(Endpoints)
    /\ LET e == Policy(raw)
           granted == caps \o Grants(raw + 1, e)
       IN  /\ frames >= e.capacity
           /\ frames' = frames - e.capacity
           /\ ends' = Append(ends, e)
           /\ caps' = granted
           /\ bound' = bound \cup (IF from_index(raw) = "CoreToNetwork" THEN {raw + 1} ELSE {})
           /\ package' = IF from_index(raw) = "CoreToStoragePackage"
                         THEN CHOOSE c \in DOMAIN granted :
                                granted[c] = Grant("Storage", raw + 1, "Receive")
                         ELSE package
    /\ raw' = raw + 1
    /\ UNCHANGED <<sizeof, enabled, pool, phase, program, image, cache, cursor, found, sent>>

\* Too few frames for a queue, or no kernel memory for a table: the frames of
\* this queue and of every endpoint so far go back and the boot fails. The
\* exhaustion of kernel memory may strike after any number of frames.
FailBoot ==
    /\ phase = "boot" /\ raw < Len(Endpoints)
    /\ \E taken \in {0, Policy(raw).capacity} :
         /\ taken <= frames
         /\ LET left == frames - taken
                released == left + taken
            IN  frames' = released + Frames(ends)
    /\ ends' = <<>> /\ caps' = <<>> /\ bound' = {}
    /\ phase' = "failed"
    /\ UNCHANGED <<sizeof, enabled, pool, raw, package, program, image, cache, cursor, found, sent>>

FinishBoot ==
    /\ phase = "boot" /\ raw = Len(Endpoints)
    /\ phase' = "ready"
    /\ UNCHANGED <<sizeof, enabled, pool, raw, frames, ends, caps, bound, package, program,
                   image, cache, cursor, found, sent>>

\* The five channels between a program and Atrium.
Surface(producer, consumer, contract, type, capacity) ==
    [producer |-> producer, consumer |-> consumer, contract |-> contract, type |-> type,
     capacity |-> capacity]
ProgramEnds ==
    <<Surface("Program", "Atrium", "ATRIUM_SURFACE_REQUEST", "AtriumSurfaceRequest", 1),
      Surface("Atrium", "Program", "ATRIUM_SURFACE_RESPONSE", "AtriumSurfaceResponse", 1),
      Surface("Atrium", "Program", "ATRIUM_SURFACE_INPUT", "AtriumSurfaceInput", 32),
      Surface("Program", "Atrium", "RENDER", "RenderMessage", 1),
      Surface("Program", "Atrium", "ATRIUM_SURFACE_DRAW", "GuiSceneOp", 1)>>

provision_surface_ipc ==
    /\ phase = "ready" /\ ~program
    /\ frames >= Frames(ProgramEnds)
    /\ frames' = frames - Frames(ProgramEnds)
    /\ LET grants(i) == LET e == ProgramEnds[i] IN
             <<Grant(e.producer, Len(ends) + i, "Send"), Grant(e.consumer, Len(ends) + i, "Receive")>>
       IN  caps' = caps \o FlattenSeq([i \in 1 .. Len(ProgramEnds) |-> grants(i)])
    /\ ends' = ends \o ProgramEnds
    /\ program' = TRUE
    /\ UNCHANGED <<sizeof, enabled, pool, phase, raw, bound, package, image, cache, cursor,
                   found, sent>>

-----------------------------------------------------------------------------
(* The capabilities each service image looks up.                            *)

CapabilitySpec(contract, peer, type, rights) ==
    [contract |-> contract, peer |-> peer, type |-> type, rights |-> rights]
Send(contract, peer, type) == CapabilitySpec(contract, peer, type, "Send")
Receive(contract, peer, type) == CapabilitySpec(contract, peer, type, "Receive")

InputSpecs == <<
  Send("GUI_INPUT", "shell", "InputMessage"),
  Send("GUI_INPUT", "atrium", "InputMessage"),
  Receive("INPUT_SETTINGS", "atrium", "InputSettings")>>

DisplaySpecs == <<
  Receive("RENDER", "terminal", "RenderMessage"),
  Receive("RENDER", "atrium", "GuiTextGridRow"),
  Receive("GUI_DRAW", "shell", "GuiSceneOp"),
  Receive("GUI_DRAW", "atrium", "GuiSceneOp"),
  Receive("GUI_DRAW", "lockscreen", "GuiSceneOp"),
  Receive("GUI_SURFACE", "atrium", "GuiSurfaceRequest"),
  Send("GUI_SURFACE", "atrium", "GuiSurfaceResponse"),
  Receive("GUI_SURFACE", "lockscreen", "GuiSurfaceRequest"),
  Send("GUI_SURFACE", "lockscreen", "GuiSurfaceResponse")>>

TerminalSpecs == <<
  Receive("ATRIUM_SURFACE_INPUT", "atrium", "AtriumSurfaceInput"),
  Send("RENDER", "atrium", "GuiTextGridRow"),
  Send("ATRIUM_SURFACE_REQUEST", "atrium", "AtriumSurfaceRequest"),
  Receive("ATRIUM_SURFACE_RESPONSE", "atrium", "AtriumSurfaceResponse"),
  Send("BYTES", "session", "IpcBytes"),
  Receive("BYTES", "session", "IpcBytes")>>

SessionSpecs == <<
  Receive("BYTES", "terminal", "IpcBytes"),
  Send("BYTES", "terminal", "IpcBytes"), Send("BYTES", "flow", "IpcBytes"),
  Receive("BYTES", "flow", "IpcBytes")>>

FlowSpecs == <<
  Receive("BYTES", "session", "IpcBytes"),
  Send("BYTES", "session", "IpcBytes"), Send("BYTES", "storage", "IpcBytes"),
  Receive("BYTES", "storage", "IpcBytes"),
  Send("BYTES", "network", "IpcBytes"),
  Receive("BYTES", "network", "IpcBytes"), Send("BYTES", "fetch", "IpcBytes"),
  Receive("BYTES", "fetch", "IpcBytes"),
  Send("DEVICE_REQUEST", "device", "DeviceRequest"),
  Receive("DEVICE_RESPONSE", "device", "DeviceResponse"),
  Send("BYTES", "user", "IpcBytes"), Receive("BYTES", "user", "IpcBytes"),
  Receive("GUI_SESSION", "shell", "GuiSessionContext")>>

StorageSpecs == <<
  Send("STORAGE_REQUEST", "any", "StorageRequest"),
  Receive("STORAGE_RESPONSE", "any", "StorageResponse"),
  Receive("BYTES", "flow", "IpcBytes"), Send("BYTES", "flow", "IpcBytes"),
  Receive("BYTES", "fetch", "IpcBytes"), Send("BYTES", "fetch", "IpcBytes"),
  Receive("PACKAGE_REQUEST", "any", "PackageRequest"),
  Send("PACKAGE_RESPONSE", "any", "PackageResponse"),
  Send("STORAGE_MAP_REQUEST", "any", "StorageMapRequest"),
  Receive("STORAGE_MAP_RESPONSE", "any", "StorageMapResponse"),
  Receive("BYTES", "user", "IpcBytes"), Send("BYTES", "user", "IpcBytes")>>

NetworkSpecs == <<
  Receive("BYTES", "flow", "IpcBytes"), Send("BYTES", "flow", "IpcBytes"),
  Receive("BYTES", "fetch", "IpcBytes"), Send("BYTES", "fetch", "IpcBytes"),
  Receive("PACKET", "any", "NetworkPacketDescriptor"),
  Send("PACKET", "any", "NetworkPacketDescriptor")>>

FetchSpecs == <<
  Receive("BYTES", "flow", "IpcBytes"), Send("BYTES", "flow", "IpcBytes"),
  Send("BYTES", "storage", "IpcBytes"),
  Receive("BYTES", "storage", "IpcBytes"),
  Send("BYTES", "network", "IpcBytes"),
  Receive("BYTES", "network", "IpcBytes")>>

DeviceSpecs == <<
  Receive("DEVICE_REQUEST", "flow", "DeviceRequest"),
  Send("DEVICE_RESPONSE", "flow", "DeviceResponse"),
  Send("DEVICE_REQUEST", "any", "DeviceRequest"),
  Receive("DEVICE_RESPONSE", "any", "DeviceResponse")>>

UserSpecs == <<
  Receive("BYTES", "flow", "IpcBytes"), Send("BYTES", "flow", "IpcBytes"),
  Receive("GUI_USER_REQUEST", "shell", "IpcBytes"),
  Send("GUI_USER_RESPONSE", "shell", "IpcBytes"),
  Send("BYTES", "storage", "IpcBytes"),
  Receive("BYTES", "storage", "IpcBytes"),
  Receive("ATRIUM_SETTINGS_REQUEST", "atrium", "AtriumSettingsRequest"),
  Send("ATRIUM_SETTINGS_RESPONSE", "atrium", "AtriumSettingsResponse")>>

ShellSpecs == <<
  Receive("GUI_INPUT", "input", "InputMessage"),
  Send("GUI_SESSION", "flow", "GuiSessionContext"),
  Send("GUI_USER_REQUEST", "user", "IpcBytes"),
  Receive("GUI_USER_RESPONSE", "user", "IpcBytes"),
  Receive("ATRIUM_CONTROL", "atrium", "AtriumControl"),
  Send("GUI_SESSION", "atrium", "GuiSessionContext"),
  Receive("GUI_USER_REQUEST", "lockscreen", "UserRequest"),
  Send("GUI_USER_RESPONSE", "lockscreen", "UserResponse")>>

LockScreenSpecs == <<
  Receive("GUI_INPUT", "atrium", "InputMessage"),
  Send("GUI_DRAW", "display", "GuiSceneOp"),
  Send("GUI_SURFACE", "display", "GuiSurfaceRequest"),
  Receive("GUI_SURFACE", "display", "GuiSurfaceResponse"),
  Receive("GUI_HOOK", "atrium", "GuiHook"),
  Send("GUI_USER_REQUEST", "shell", "UserRequest"),
  Receive("GUI_USER_RESPONSE", "shell", "UserResponse")>>

AtriumSpecs == <<
  Receive("GUI_INPUT", "input", "InputMessage"),
  Send("INPUT_SETTINGS", "input", "InputSettings"),
  Send("GUI_DRAW", "display", "GuiSceneOp"),
  Receive("RENDER", "terminal", "GuiTextGridRow"),
  Send("RENDER", "display", "GuiTextGridRow"),
  Send("GUI_SURFACE", "display", "GuiSurfaceRequest"),
  Receive("GUI_SURFACE", "display", "GuiSurfaceResponse"),
  Receive("ATRIUM_SURFACE_REQUEST", "terminal", "AtriumSurfaceRequest"),
  Send("ATRIUM_SURFACE_RESPONSE", "terminal", "AtriumSurfaceResponse"),
  Send("ATRIUM_SURFACE_INPUT", "terminal", "AtriumSurfaceInput"),
  Receive("ATRIUM_SURFACE_REQUEST", "system", "AtriumSurfaceRequest"),
  Send("ATRIUM_SURFACE_RESPONSE", "system", "AtriumSurfaceResponse"),
  Send("ATRIUM_SURFACE_INPUT", "system", "AtriumSurfaceInput"),
  Receive("ATRIUM_SURFACE_DRAW", "system", "GuiSceneOp"),
  Send("ATRIUM_CONTROL", "shell", "AtriumControl"),
  Receive("GUI_SESSION", "shell", "GuiSessionContext"),
  Send("GUI_INPUT", "lockscreen", "InputMessage"),
  Send("GUI_HOOK", "lockscreen", "GuiHook"),
  Send("ATRIUM_SETTINGS_REQUEST", "user", "AtriumSettingsRequest"),
  Receive("ATRIUM_SETTINGS_RESPONSE", "user", "AtriumSettingsResponse")>>

SystemSpecs == <<
  Send("ATRIUM_SURFACE_REQUEST", "atrium", "AtriumSurfaceRequest"),
  Receive("ATRIUM_SURFACE_RESPONSE", "atrium", "AtriumSurfaceResponse"),
  Receive("ATRIUM_SURFACE_INPUT", "atrium", "AtriumSurfaceInput"),
  Send("ATRIUM_SURFACE_DRAW", "atrium", "GuiSceneOp")>>

Specs == [Input |-> InputSpecs, Display |-> DisplaySpecs, Terminal |-> TerminalSpecs,
          Session |-> SessionSpecs, Flow |-> FlowSpecs, Storage |-> StorageSpecs,
          Network |-> NetworkSpecs, Fetch |-> FetchSpecs, Device |-> DeviceSpecs,
          User |-> UserSpecs, Shell |-> ShellSpecs, LockScreen |-> LockScreenSpecs,
          Atrium |-> AtriumSpecs, System |-> SystemSpecs]

-----------------------------------------------------------------------------
(* The lookups of an image and its messages.                                *)

StartImage(s) ==
    /\ phase = "ready" /\ image = "none"
    /\ image' = s
    /\ UNCHANGED <<sizeof, enabled, pool, phase, raw, frames, ends, caps, bound, package,
                   program, cache, cursor, found, sent>>

\* The record the directory gives of a capability of the caller.
DirectoryRecord(c) ==
    LET e == ends[c.end]
    IN  [end |-> c.end, rights |-> c.rights, contract |-> e.contract, bytes |-> sizeof[e.type],
         peer |-> IF e.producer = c.owner THEN e.consumer ELSE e.producer]

\* One page of the caller's capabilities, from the cursor on.
ReadPage ==
    /\ image # "none" /\ cursor # -1
    /\ LET own == SelectSeq(caps, LAMBDA c : c.owner = image)
           last == IF Len(own) > cursor + PAGE THEN cursor + PAGE ELSE Len(own)
           page == SubSeq(own, cursor + 1, last)
       IN  /\ cache' = cache \o [i \in DOMAIN page |-> DirectoryRecord(page[i])]
           /\ cursor' = IF Len(own) > last THEN last ELSE -1
    /\ UNCHANGED <<sizeof, enabled, pool, phase, raw, frames, ends, caps, bound, package,
                   program, image, found, sent>>

capability_record_contract_matches(r, spec) ==
    r.rights = spec.rights /\ r.contract = spec.contract /\ r.bytes = sizeof[spec.type]

\* The two ways a lookup fails, apart from every endpoint.
Disconnected == 0
Malformed == -1
Status == {Disconnected, Malformed}

\* The one record that matches, Disconnected without one, Malformed with two.
discover_capability_contract_selector(spec) ==
    LET match == {i \in DOMAIN cache :
                    /\ spec.peer = "any" \/ cache[i].peer = Names[spec.peer]
                    /\ capability_record_contract_matches(cache[i], spec)}
    IN  CASE match = {} -> Disconnected
          [] Cardinality(match) > 1 -> Malformed
          [] OTHER -> cache[CHOOSE i \in match : TRUE].end

\* The images open their capabilities one by one; one whose lookup fails stays
\* idle.
Open ==
    /\ image # "none" /\ cursor = -1
    /\ Len(found) < Len(Specs[image])
    /\ \A i \in DOMAIN found : found[i] \notin Status
    /\ found' = Append(found, discover_capability_contract_selector(Specs[image][Len(found) + 1]))
    /\ UNCHANGED <<sizeof, enabled, pool, phase, raw, frames, ends, caps, bound, package,
                   program, image, cache, cursor, sent>>

\* The first endpoint between two services under a contract.
dynamic_endpoint(producer, consumer, contract) ==
    LET match == {i \in DOMAIN ends : /\ ends[i].producer = producer
                                      /\ ends[i].consumer = consumer
                                      /\ ends[i].contract = contract}
    IN  IF match = {} THEN Disconnected
        ELSE CHOOSE i \in match : \A j \in match : i <= j

endpoint_requires_core_dispatch(end) ==
    end \in {dynamic_endpoint("Storage", "Core", "STORAGE_REQUEST"),
             dynamic_endpoint("Core", "Storage", "STORAGE_RESPONSE"),
             dynamic_endpoint("Network", "Core", "PACKET"),
             dynamic_endpoint("Core", "Network", "PACKET"),
             dynamic_endpoint("Device", "Core", "DEVICE_REQUEST"),
             dynamic_endpoint("Core", "Device", "DEVICE_RESPONSE"),
             dynamic_endpoint("Core", "Storage", "PACKAGE_REQUEST"),
             dynamic_endpoint("Storage", "Core", "PACKAGE_RESPONSE"),
             dynamic_endpoint("Storage", "Core", "STORAGE_MAP_REQUEST"),
             dynamic_endpoint("Core", "Storage", "STORAGE_MAP_RESPONSE")}

\* With no network configured Core answers Flow's request in Network's place,
\* on the endpoint it takes for the way back.
Unconfigured(end) ==
    ~enabled /\ end = dynamic_endpoint("Flow", "Network", "BYTES")
AnswerForNetwork ==
    LET back == dynamic_endpoint("Network", "Flow", "PACKET")
    IN  IF back = Disconnected THEN "Disconnected" ELSE "answered"

\* Where a message on an endpoint goes: into its queue, to the handler of Core,
\* or back to its sender. The capability must carry the right to send.
ipc_send(end) ==
    CASE ~\E i \in DOMAIN caps : caps[i] = Grant(image, end, "Send") -> "Unauthorized"
      [] endpoint_requires_core_dispatch(end) -> "core"
      [] Unconfigured(end) -> AnswerForNetwork
      [] OTHER -> "queue"

SendMessage(i) ==
    /\ image # "none" /\ Len(found) = Len(Specs[image])
    /\ found[i] \notin Status /\ Specs[image][i].rights = "Send"
    /\ sent' = <<found[i], ipc_send(found[i])>>
    /\ UNCHANGED <<sizeof, enabled, pool, phase, raw, frames, ends, caps, bound, package,
                   program, image, cache, cursor, found>>

Next ==
    \/ RegisterEndpoint \/ FailBoot \/ FinishBoot
    \/ provision_surface_ipc
    \/ \E s \in Range(Services) : StartImage(s)
    \/ ReadPage
    \/ Open
    \/ \E i \in DOMAIN found : SendMessage(i)

Spec == Init /\ [][Next]_vars

-----------------------------------------------------------------------------
TypeOK ==
    /\ phase \in {"boot", "ready", "failed"} /\ raw \in 0 .. Len(Endpoints)
    /\ frames \in Nat /\ program \in BOOLEAN
    /\ image \in Range(Services) \cup {"none"}
    /\ cursor \in Nat \cup {-1}
    /\ \A i \in DOMAIN caps : caps[i].end \in DOMAIN ends

\* Every frame is free or in the queue of a registered endpoint, whether the
\* boot got through or failed halfway.
QueueFramesKept == frames + Frames(ends) = pool

\* Every endpoint of the policy joins two different parties, each with the one
\* capability of its side, and no two share parties and contract, so the first
\* match Core takes for an endpoint is the endpoint. (Images change no endpoint:
\* this and SendersAreHeard are evaluated before one starts.)
EndpointsDistinct ==
    image = "none" => \A i \in DOMAIN ends :
      LET own == {c \in DOMAIN caps : caps[c].end = i}
      IN  /\ ends[i].producer # ends[i].consumer
          /\ {caps[c] : c \in own} = {Grant(ends[i].producer, i, "Send"),
                                      Grant(ends[i].consumer, i, "Receive")}
          /\ Cardinality(own) = 2
          /\ dynamic_endpoint(ends[i].producer, ends[i].consumer, ends[i].contract) = i

\* Every lookup of every image finds one capability, for an endpoint with the
\* contract and the message type the image expects and on the side of it the
\* image asked for, whatever the sizes of the messages and whether or not a
\* program has channels under the same contracts.
LookupsExact ==
    \A k \in DOMAIN found :
      LET spec == Specs[image][k] IN
      /\ found[k] \notin Status
      /\ ends[found[k]].contract = spec.contract
      /\ ends[found[k]].type = spec.type
      /\ image = IF spec.rights = "Send" THEN ends[found[k]].producer ELSE ends[found[k]].consumer

\* The capabilities an image asked for, as endpoints of the policy.
Opens(s, rights) ==
    {i \in DOMAIN ends : \E k \in DOMAIN Specs[s] :
       LET spec == Specs[s][k]
           peer == IF rights = "Send" THEN ends[i].consumer ELSE ends[i].producer
       IN  /\ spec.rights = rights /\ spec.contract = ends[i].contract /\ spec.type = ends[i].type
           /\ s = IF rights = "Send" THEN ends[i].producer ELSE ends[i].consumer
           /\ peer = IF spec.peer = "any" THEN "Core" ELSE Names[spec.peer]}

\* What one image sends, the other reads: no image opens an endpoint to send on
\* that the image at the other end does not open to receive from.
SendersAreHeard ==
    phase = "ready" /\ image = "none" =>
      \A s \in Range(Services) : \A i \in Opens(s, "Send") :
        ends[i].consumer # "Core" => i \in Opens(ends[i].consumer, "Receive")

\* A message goes to Core's handler exactly when Core is the receiver of its
\* endpoint, and no request is queued for a Network that does not run.
MessagesRouted ==
    sent # <<>> =>
      /\ sent[2] = "core" <=> ends[sent[1]].consumer = "Core"
      /\ sent[2] # "Unauthorized"
      /\ ~enabled /\ image = "Flow" /\ ends[sent[1]].consumer = "Network" => sent[2] # "queue"
=============================================================================
