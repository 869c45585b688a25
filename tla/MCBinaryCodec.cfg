\* The size law and the decode-after-encode round trip over every value shape.
CONSTANTS
    Native = "little"
    Messages <- MCMessages
    Trailer <- MCTrailer
    Serializers <- MCSerializers
SPECIFICATION Spec
INVARIANT SizeIsBytesWritten
INVARIANT DecodeFreshInvertsEncode
