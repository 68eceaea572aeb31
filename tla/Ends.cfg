SPECIFICATION EndsSpec
CONSTANTS
  Controllers = {a, b}
  Hosts = {h, g}
  Tls = {h}
  Fds = {d1}
  None = None
  MaxHops = 2
  MaxAborts = 2
  Uris = {x, y}
  KeyUris = {j}
  Offsets = {2}
  MaxSegs = 3
  MaxLines = 5
  RoCap = 4
  Floor = 2
  Stamps = {1, 2, 3, 4}
  MaxDecoded = 5
  Painters = {v, w}
  MaxPictures = 2
  MaxOpens = 2
  Steady = 1
INVARIANTS
  BodyIsOwn
  AbortReachesNative
  PicturesAreTrue
  NoTearing
  PlaylistIsRead
  PicturesInOrder
PROPERTIES
  AbortedNeverReused
