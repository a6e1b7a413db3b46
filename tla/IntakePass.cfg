CONSTANTS
  voice = voice
  image = image
  imageAgain = imageAgain
  None = None
  Upload = {voice, image, imageAgain}
  Audio = {voice}
  RetryOf <- Retries
SPECIFICATION Spec
CHECK_DEADLOCK FALSE
INVARIANTS
  NotesAreWhole
  SavedOnce
