CONSTANT BUFFER_SIZE = 1
SPECIFICATION FairSpec
PROPERTY EverybodyServed
