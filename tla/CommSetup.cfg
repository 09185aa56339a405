SPECIFICATION MeshSpec
CONSTANTS
  npes = 3
  Vertex <- MCVertex
  Inputs <- MCInputs
  Meshes <- MCMeshes
  mask = 1
INVARIANTS SetUpAgrees DualGraphRight InputComesBack
