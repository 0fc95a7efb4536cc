SPECIFICATION PictureSpec
CONSTANTS
  MaxPictures = 2
  MaxMissing = 0
  MaxStops = 0
  Mixed = TRUE
INVARIANTS OwnPicture
CHECK_DEADLOCK FALSE
