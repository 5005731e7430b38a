CONSTANTS
  Kinds = {"play", "fmle", "flash", "encrypted", "badurl"}
  Noise = {"ack", "unknown", "bad"}
  MaxNoise = 2
  Medias = 2
SPECIFICATION FairSpec
INVARIANTS TypeOK AnswersMatch MediaKept
PROPERTIES Served UnpublishAnswered SilentIsDropped
CHECK_DEADLOCK FALSE
