\* Two textures; two fences and generations for Direct3D 12, two images and two
\* submissions at a time for Vulkan; two displays and two extents for the surfaces,
\* of whose calls one fails, with any of its native calls.
CONSTANTS
  Resources = {r1, r2}
  None = None
  MaxFence = 2
  MaxGeneration = 2
  Works = {w1, w2}
  Images = {i1, i2}
  Displays = {"d1", "d2"}
  Extents = {1, 2}
  MaxFailures = 1
SPECIFICATION RenderersSpec
INVARIANTS
  RetainedUntilDone
  WorkRetained
  ImagesLent
  SurfacesSound
PROPERTIES
  TransitionsUndone
  DisplayHeld
CHECK_DEADLOCK FALSE
