SPECIFICATION Spec
CONSTANTS
  b1 = b1  b2 = b2  b3 = b3
  w1 = w1  w2 = w2
  Bookings <- ThreeBookings
  NoBooking = NoBooking
  Workers <- TwoWorkers
  Spans <- FewSpans
  Cycle = 3
  MaxRequests = 4
INVARIANT TypeOK
INVARIANT SettledIsClosed
INVARIANT PricedUpToCycles
PROPERTY PaidUntilRefunded
PROPERTY ImplementsCalendar
SYMMETRY Symmetry
CHECK_DEADLOCK FALSE
