\* Objects with three symbols in up to two buckets; elfhacks alone.
CONSTANTS
  ctx1 = ctx1
  ctx2 = ctx2
  ctx3 = ctx3
  win1 = win1
  win2 = win2
  win3 = win3
  t1 = t1
  t2 = t2
  glc_start = glc_start
  listener = listener
  up = up
  down = down
  pbo1 = pbo1
  pbo2 = pbo2
  Main = "main"
  NoName = "no name"
  Null = Null
  Beyond = Beyond
  WordBits = 4
  Libdl = {"libdl"}
  Libc = {"libc"}
  Renderers = {t1, t2}
  Drawables = {win1, win2, win3}
  Cells = {ctx1, ctx2, ctx3}
  NoCtx = NoCtx
  GlcStart = glc_start
  Listeners <- MCListeners
  Keys = {up, down}
  Shortcuts = {{up}, {up, down}}
  MaxTime = 5
  MaxQueue = 2
  MaxShortcuts = 2
  Pbos = {pbo1, pbo2}
  MaxDepth = 2
  Inspected <- Searches
  Patterns <- MCPatterns
  SymbolNames = {"f", "g", "h", "z"}
  Loaded = {}
  Exports <- MCExports
SPECIFICATION Spec
CHECK_DEADLOCK FALSE
INVARIANT SymbolsFound
