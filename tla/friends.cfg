SPECIFICATION Spec
CONSTANTS
  plat = plat
  app = app
  vfs = vfs
  alloc = alloc
  libc = libc
  fmain = fmain
  fopen = fopen
  fmalloc = fmalloc
  ffree = ffree
  Cubicles = {plat, app, vfs, alloc}
  SharedLibs = {libc}
  LINUXUPLAT = plat
  APP = app
  VFSCORE = vfs
  LWIP = LWIP
  UKALLOC = alloc
  pkey <- MCpkeyFriends
  pkey_alloc <- MCpkey
  flist = {alloc, vfs}
  Funcs = {fmain, fopen, fmalloc, ffree}
  module <- MCmodule
  mallocs = {fmalloc}
  frees = {ffree}
  sp <- MCsp
  PageSize = 2
  Pages = {0, 1, 2, 4}
  kind <- MCkind
  home <- MChome
  HasTab = {app, vfs}
  ipc <- SqliteIpc
  Slots = 2
  Objects <- HeapObjects
  Masks <- MCMasks
  NULL = NULL
  Free = Free
  Reentry = TRUE
  MaxLayer = 3
  MaxNest = 2
INVARIANTS
  TypeOK
  
  
  SpatialIsolation
  HeapOwnership
CHECK_DEADLOCK FALSE
