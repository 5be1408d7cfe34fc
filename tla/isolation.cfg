SPECIFICATION Spec
CONSTANTS
  plat = plat
  app = app
  vfs = lwip
  alloc = alloc
  libc = libc
  fmain = fmain
  fopen = fopen
  fmalloc = fmalloc
  ffree = ffree
  Cubicles = {plat, app, lwip, alloc}
  SharedLibs = {libc}
  LINUXUPLAT = plat
  APP = app
  VFSCORE = VFSCORE
  LWIP = lwip
  UKALLOC = alloc
  pkey <- MCpkey
  pkey_alloc <- MCpkey
  flist = {}
  Funcs = {fmain, fopen, fmalloc, ffree}
  module <- MCmodule
  mallocs = {fmalloc}
  frees = {ffree}
  sp <- MCsp
  PageSize = 2
  Pages = {0, 1, 2, 3, 4, 5}
  kind <- MCkind
  home <- MChome
  HasTab = {lwip}
  ipc <- NginxIpc
  Slots = 1
  Objects <- MixedObjects
  Masks <- AppMask
  NULL = NULL
  Free = Free
  Reentry = FALSE
  MaxLayer = 3
  MaxNest = 1
INVARIANTS
  
  SpatialIsolation
  HeapOwnership
  BlockProtected
PROPERTIES
  OnlyOpenWindowsMap
CHECK_DEADLOCK FALSE
