SPECIFICATION Spec
CONSTANTS
  a = a  b = b  c = c  x = x  r1 = r1
  Clips <- MCClips
  Injected <- MCInjected
  Requests <- MCRequests
  RingSize = 2
  LruSize = 1
SYMMETRY MCSymmetry
CONSTRAINT MCBound
INVARIANTS TypeOK OneEntryPerClip SameGalleryAfterRestart MediaOfGalleryOnly NobodyWaitsInVain
