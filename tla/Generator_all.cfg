CONSTANTS
  Protos <- MCProtos
  Home <- MCHome
  ServicesOf <- MCServicesOf
  MethodsOf <- MCMethodsOf
  Messages = {"p2"}
  Runs = {r1, r2}
  Edited <- MCEdited
  Nobody = Nobody
SPECIFICATION Spec
CHECK_DEADLOCK FALSE
INVARIANTS
  TypeOK
  ServedIsHandled
PROPERTIES
  UserCodeStays
  AllRegistered
