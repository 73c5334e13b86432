SPECIFICATION Spec
CONSTANTS
  Lines <- SampleLines
INVARIANT NodeFollowsDriver
