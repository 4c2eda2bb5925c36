SPECIFICATION Spec
CONSTANTS
  Pumps = {"messages", "invites"}
  Guests = {"g1", "g2"}
  Modes = {"relay", "lan"}
  MaxArrivals = 2
  MaxTrips <- TripsByMode
  MaxLobbies = 1
  Handles = {"h1", "h2"}
  Passwords = {"p1", "p2"}
  MaxOrgWork = 2
  MaxDials = 2
INVARIANTS PumpForLife
CHECK_DEADLOCK FALSE
