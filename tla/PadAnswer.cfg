SPECIFICATION Spec
CONSTANTS
  Buttons <- MCButtons
  Keys <- MCKeys
  Does <- MCDoes
  Sticks <- MCSticks
  STEP = 2
  DEAD = 6
  QUANT = 4
  End = 15
  Gears = 2
  QuitFrames = 2
  Intro = 1
  Backoff = 1
  Fingers = 2
PROPERTIES
  AnswerIsMeant
