SPECIFICATION TopicSpec
CONSTANT
  Ttl = 3
INVARIANT
  SilentMeansAnnounced
