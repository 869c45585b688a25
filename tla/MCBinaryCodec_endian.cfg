\* The codec endian law on a little-endian host.
CONSTANTS
    Native = "little"
    Messages <- MCMessages
    Trailer <- MCTrailer
    Serializers <- MCSerializers
SPECIFICATION Spec
INVARIANT WireIsBigEndian
