SPECIFICATION Spec
CONSTANTS
    Byte = {0, 1}
    Zero = 0
    k_cheap_prepend = 1
    k_initial_size = 2
    ExtraSize = 2
    MaxChunk = 3
    MaxBytes = 6
INVARIANTS
    IndexOrder
    SpaceAssertions
PROPERTY IsByteStream
