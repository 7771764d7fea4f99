------------------------------ MODULE MCParts ------------------------------
(***************************************************************************)
(* The parts that do not depend on each other, explored side by side: a    *)
(* behaviour is one of one part, while the others stay as they are         *)
(* initially.                                                              *)
(***************************************************************************)
EXTENDS MotionDelay, MotionPath, MotionPacket, DemoMotion,
        TokenBucket, RateLimiter, RedisRegistry, RoomDirectory, HostLists,
        SettingsFile, DiagnosticLog, OutputLog, OutputRange, Invites, Shutdown,
        QrCode

VARIABLE part

motionVars  == <<bufferVars, pathVars, packetVars, demoVars>>
relayVars   == <<bucketVars, limiterVars, registryVars, directoryVars, hostListVars>>
desktopVars == <<settingsVars, logVars, outputVars, rangeVars, inviteVars, qrVars,
                 shutdownVars>>
vars == <<part, motionVars, relayVars, desktopVars>>

Parts ==
    {"delay", "path", "packet", "demo",
     "tokens", "limiter", "registry", "directory", "lists",
     "settings", "log", "output", "range", "invites", "qr", "shutdown"}

Init ==
    /\ part \in Parts
    /\ BufferInit /\ DemoInit /\ LimiterInit /\ RegistryInit
    /\ HostListsInit /\ LogInit /\ OutputInit /\ RangeInit /\ QrInit
    /\ BucketInit /\ (part # "tokens" => ~overRedis)
    /\ PathInit /\ (part # "path" => numbered)
    /\ PacketInit /\ (part # "packet" => relayClock = CHOOSE t \in SourceTimes : TRUE)
    /\ DirectoryInit /\ (part # "directory" => ~authenticated /\ selected = CHOOSE s \in Servers : TRUE)
    /\ SettingsInit /\ (part # "settings" => file = Missing)
    /\ ShutdownInit /\ (part # "shutdown" => ~onMac)
    /\ InvitesInit /\ (part # "invites" => /\ hostForm.name = CHOOSE name \in Names : TRUE
                                           /\ hostForm.url = CHOOSE url \in Urls : TRUE)

InMotion(name, action) == part = name /\ action /\ UNCHANGED <<part, relayVars, desktopVars>>
InDelay(action)  == InMotion("delay", action) /\ UNCHANGED <<pathVars, packetVars, demoVars>>
InPath(action)   == InMotion("path", action) /\ UNCHANGED <<bufferVars, packetVars, demoVars>>
InPacket(action) == InMotion("packet", action) /\ UNCHANGED <<bufferVars, pathVars, demoVars>>
InDemo(action)   == InMotion("demo", action) /\ UNCHANGED <<bufferVars, pathVars, packetVars>>

InRelay(name, action, others) ==
    part = name /\ action /\ UNCHANGED <<part, motionVars, desktopVars, others>>
InTokens(action) ==
    InRelay("tokens", action, <<limiterVars, registryVars, directoryVars, hostListVars>>)
InLimiter(action) ==
    InRelay("limiter", action, <<bucketVars, registryVars, directoryVars, hostListVars>>)
InRegistry(action) ==
    InRelay("registry", action, <<bucketVars, limiterVars, directoryVars, hostListVars>>)
InDirectory(action) ==
    InRelay("directory", action, <<bucketVars, limiterVars, registryVars, hostListVars>>)
InLists(action) ==
    InRelay("lists", action, <<bucketVars, limiterVars, registryVars, directoryVars>>)

InDesktop(name, action, others) ==
    part = name /\ action /\ UNCHANGED <<part, motionVars, relayVars, others>>
InSettings(action) ==
    InDesktop("settings", action, <<logVars, outputVars, rangeVars, inviteVars, qrVars,
                             shutdownVars>>)
InLog(action) ==
    InDesktop("log", action, <<settingsVars, outputVars, rangeVars, inviteVars, qrVars,
                             shutdownVars>>)
InOutput(action) ==
    InDesktop("output", action, <<settingsVars, logVars, rangeVars, inviteVars, qrVars,
                             shutdownVars>>)
InRange(action) ==
    InDesktop("range", action, <<settingsVars, logVars, outputVars, inviteVars, qrVars,
                             shutdownVars>>)
InInvites(action) ==
    InDesktop("invites", action, <<settingsVars, logVars, outputVars, rangeVars, qrVars,
                             shutdownVars>>)
InQr(action) ==
    InDesktop("qr", action, <<settingsVars, logVars, outputVars, rangeVars, inviteVars,
                             shutdownVars>>)
InShutdown(action) ==
    InDesktop("shutdown", action, <<settingsVars, logVars, outputVars, rangeVars, inviteVars,
                                    qrVars>>)

Next ==
    \/ InDelay(BufferNext) \/ InPath(PathNext) \/ InPacket(PacketNext) \/ InDemo(DemoNext)
    \/ InTokens(BucketNext) \/ InLimiter(LimiterNext) \/ InRegistry(RegistryNext)
    \/ InDirectory(DirectoryNext) \/ InLists(HostListsNext)
    \/ InSettings(SettingsNext) \/ InLog(LogNext) \/ InOutput(OutputNext)
    \/ InRange(RangeNext) \/ InInvites(InvitesNext) \/ InQr(QrNext)
    \/ InShutdown(ShutdownNext)

Spec ==
    /\ Init /\ [][Next]_vars
    /\ WF_vars(InDelay(Tick)) /\ WF_vars(InDelay(PlayTimerFires))
=============================================================================
