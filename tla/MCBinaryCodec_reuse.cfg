\* Decoding into an object that already holds a value.
CONSTANTS
    Native = "little"
    Messages <- MCMessages
    Trailer <- MCTrailer
    Serializers <- MCSerializers
SPECIFICATION Spec
INVARIANT DecodeReusedInvertsEncode
