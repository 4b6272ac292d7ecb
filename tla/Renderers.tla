----------------------------- MODULE Renderers ------------------------------
(***************************************************************************)
(* The renderer backends: the submissions of each of the two, what both    *)
(* keep while the GPU may use it, and the surfaces of the Direct3D 12 one. *)
(* A behaviour follows one of them.                                        *)
(***************************************************************************)
EXTENDS D3D12Submission

CONSTANTS
  Works, Images,                   \* of the Vulkan backend
  Displays, Extents, MaxFailures   \* of the Direct3D 12 surfaces

ASSUME VulkanAssumption == None \notin Works \cup Images /\ Images \cap Resources = {}
ASSUME SurfaceAssumption ==
  /\ Extents \subseteq Nat \ {0} /\ Extents # {} /\ "free" \notin Displays /\ "" \notin Displays
  /\ MaxFailures \in Nat

VARIABLES
  renderer,  \* which one this is
  slot, terminal, surface, held, operation, running, lost, engine,
  record, screen, failures, answer

Vulkan  == INSTANCE VulkanSubmission
Surface == INSTANCE D3D12Surface

d3d12   == <<last, pending, fences, commands, gpu, registered, event, call, result>>
vulkan  == <<slot, terminal, surface, held, operation, running, lost, engine>>
submits == <<issued, generation, records, d3d12, vulkan>>
window  == <<record, screen, failures, answer>>
all     == <<renderer, submits, window>>

RenderersInit ==
  /\ renderer \in {"d3d12", "vulkan", "d3d12 surface"}
  /\ Init /\ Vulkan!Init
  /\ Surface!Init
  /\ renderer # "d3d12 surface" => screen = [d \in Displays |-> CHOOSE e \in Extents : TRUE]

OfD3D12(A)   == renderer = "d3d12" /\ A /\ UNCHANGED <<renderer, vulkan, window>>
OfVulkan(A)  == renderer = "vulkan" /\ A /\ UNCHANGED <<renderer, d3d12, window>>
OfSurface(A) == renderer = "d3d12 surface" /\ A /\ UNCHANGED <<renderer, submits>>

RenderersNext == OfD3D12(Next) \/ OfVulkan(Vulkan!Next) \/ OfSurface(Surface!Next)

RenderersSpec == RenderersInit /\ [][RenderersNext]_all

(***************************************************************************)
(* Properties.  RetainedUntilDone is the Direct3D 12 backend's own.        *)
(***************************************************************************)

\* The Vulkan backend holds what the GPU works on.
WorkRetained == Vulkan!WorkRetained

\* It waits once for each image it is lent, and uses no other.
ImagesLent == Vulkan!ImagesLent

\* A Vulkan surface that cannot be created, or is destroyed, leaves no native
\* object; the textures of a Direct3D 12 surface are what its chain holds and what
\* it describes.
SurfacesSound == Vulkan!ObjectsHeld /\ Surface!BuffersMatch

\* A transition that fails has undone what it did, or reports that it could not
\* (OuiRenderer.md:304-305).
TransitionsUndone == Surface!Undone

\* A display is given back by the surface that took it (OuiRenderer.md:307-308).
DisplayHeld == Surface!DisplayHeld
=============================================================================
