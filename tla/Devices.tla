------------------------------ MODULE Devices -------------------------------
(***************************************************************************)
(* What talks to the world outside: the camera adapters and the            *)
(* transports.  A behaviour follows one of them.                           *)
(***************************************************************************)
EXTENDS Transports

CONSTANTS MaxBuffers, MaxCapture, IntMax, Buffers  \* of the camera adapters

ASSUME CameraAssumption ==
  /\ MaxBuffers \in Nat \ {0, 1} /\ MaxCapture \in Nat
  /\ {IntMax, Buffers} \subseteq Nat \ {0}

VARIABLES
  camera,  \* whether it is a camera adapter
  adapter, streaming, camera_call,
  fd, dirty, count, mapped, driver, lease, left, expiry,
  handle, disconnected, callback_failed, native_active, requests, held, stopped,
  opened, failed, direct, callback, reader, capture, late_flush

Cameras == INSTANCE CameraAdapters WITH MaxTimeout <- MaxCapture, call <- camera_call, late <- late_flush

cameras ==
  <<adapter, streaming, camera_call, fd, dirty, count, mapped, driver, lease, left, expiry,
    handle, disconnected, callback_failed, native_active, requests, held, stopped,
    opened, failed, direct, callback, reader, capture, late_flush>>
all     == <<camera, vars, cameras>>

DevicesInit ==
  /\ camera \in BOOLEAN
  /\ TransportsInit /\ (camera => transport = "udp" /\ ~cancelled /\ ~windows)
  /\ Cameras!Init /\ (~camera => adapter = "v4l2")

OfCamera(A)    == camera /\ A /\ UNCHANGED <<camera, vars>>
OfTransport(A) == ~camera /\ A /\ UNCHANGED <<camera, cameras>>

DevicesNext == OfCamera(Cameras!Next) \/ OfTransport(Next)

\* A behaviour has one device, so this is the fairness of each.
DevicesSpec ==
  /\ DevicesInit /\ [][DevicesNext]_all
  /\ WF_all(OfCamera(Cameras!Steps) \/ OfTransport(Steps))
  /\ WF_all(OfCamera(Cameras!Ticks) \/ OfTransport(Ticks))

-----------------------------------------------------------------------------
(***************************************************************************)
(* Properties, those of Transports aside.                                  *)
(***************************************************************************)

\* A frame buffer has one owner at a time.
FramesOwned == Cameras!FramesOwned

\* Between calls an adapter keeps nothing that is not accounted for.
BetweenCalls == Cameras!BetweenCalls

\* The adapters keep what CameraSession relies on.
KeepsContract == Cameras!KeepsContract

\* Every call returns, whatever the device, the network or the peer does.
InCall == IF camera THEN Cameras!Busy ELSE Busy
CallsReturn == []<>~InCall
=============================================================================
