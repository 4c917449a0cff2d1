\* Two operator requests with strings of up to two characters and one
\* failing Consul call: a request whose StfSender list has a leading
\* separator (or is empty) is accepted with an empty StfSender id.  The
\* operator writes a bounded number of requests, and a key left behind by a
\* failed move blocks every later one, so the system really stops.
CONSTANTS
  MaxReqs = 2
  MaxLen = 2
  MaxErrors = 1
SPECIFICATION Spec
INVARIANT AcceptedRequestsSound
CHECK_DEADLOCK FALSE
