SPECIFICATION Spec
CONSTANTS
  Days = {1, 2}
  Last = 2
  MaxPics = 3
INVARIANTS
  TypeOK
  IndexNamesPicture
  NumbersInOrder
  CameraGoesOn
PROPERTIES
  PicturesKept
