SPECIFICATION Spec
CONSTANTS
  Units = {1,2}
  Groups = {1}
  Keys = {1}
  MaxRequests = 3
INVARIANTS Durable LossIsVisible AckedIsKept
