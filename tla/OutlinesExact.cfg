\* basename_file_outline reads the file before it takes its time.
CONSTANTS
    Readers = {r1}
    MaxVersion = 1
    MaxRequests = 2
    Indexed = {0}
    Epoch = Epoch
    Nil = Nil
SPECIFICATION Spec
INVARIANT OutlinesExact
