\* Windows and POSIX, two addresses.
CONSTANTS
  MaxTimeout = 1
  MaxBytes = 1
  MaxAddresses = 2
SPECIFICATION Spec
PROPERTY RefusalNoticed
