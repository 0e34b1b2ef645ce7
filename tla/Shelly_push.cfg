SPECIFICATION Spec
CONSTANTS
 Entities <- TwoPhases
 Readings = {5}
 NoValue = NoValue
 Unusable = Unusable
 Gone = Gone
 NoAnswer = NoAnswer
 MaxFrames = 1
 Batteries = {b1}
 Ports = {1010, 2220}
 FreshTimeout = 1
 InactiveTimeout = 2
 DedupeWindow = 1
INVARIANTS NothingResurrected PresentIsWatched
PROPERTIES EachReplyIsNews
