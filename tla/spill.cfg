SPECIFICATION Spec
CONSTANTS
  plat = plat
  app = app
  vfs = vfs
  alloc = alloc
  libc = libc
  fmain = fmain
  fopen = fopen
  fmalloc = fmalloc
  ffree = ffree
  Cubicles = {plat, app, vfs, alloc}
  SharedLibs = {libc}
  LINUXUPLAT = plat
  APP = app
  VFSCORE = vfs
  LWIP = LWIP
  UKALLOC = alloc
  pkey <- MCpkey
  pkey_alloc <- MCpkey
  flist = {}
  Funcs = {fmain, fopen, fmalloc, ffree}
  module <- MCmodule
  mallocs = {fmalloc}
  frees = {ffree}
  sp <- MCsp
  PageSize = 2
  Pages = {0, 1, 2, 4, 5}
  kind <- MCkind
  home <- MChome
  HasTab = {app}
  ipc <- SqliteIpc
  Slots = 1
  Objects <- HeapObjects
  Masks <- MCMasks
  NULL = NULL
  Free = Free
  Reentry = FALSE
  MaxLayer = 3
  MaxNest = 1
PROPERTIES
  WindowMovesItsPages
CHECK_DEADLOCK FALSE
