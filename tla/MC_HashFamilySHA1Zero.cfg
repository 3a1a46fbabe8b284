\* SHA1HashFamily called with the key 0 among others.
CONSTANTS
    Families = {"SHA1"}
    SHA1Keys = {0, 1, 2}
SPECIFICATION Spec
INVARIANT SHA1HashIsDigest
