SPECIFICATION Spec
CONSTANTS
    c1 = c1  c2 = c2  c3 = c3  p1 = p1  p2 = p2  f1 = f1  f2 = f2
    alice = alice  bob = bob  nobody = nobody
    s1 = s1  s2 = s2  s3 = s3  sX = sX  a1 = a1  a2 = a2  aX = aX
    k1 = k1  k2 = k2  k3 = k3  g1 = g1  g2 = g2
    Cleaner = Cleaner  Declined = Declined  None = None
    Users = {alice, bob}
    BookingKeys = {k1, k2, k3}
    PayKeys = {g1, g2}
    UserIds <- MCUserIds
    ScheduleIds <- MCScheduleIds
    Schedules <- MCSchedules
    SeatIds <- MCSeatIds
    Seats <- MCSeats
    Departs <- MCDeparts
    Arrives <- MCArrives
    ReservationTTL = 1
    RefundCutoff = 1
    PoolSize = 30
    StaleAfter = 0
    Creates = {c1, c2}
    Pays = {}
    Refunds = {}
    Workloads <- RaceWorkloads
    MaxTime = 0
    MaxFaults = 0
INVARIANT NoOverlappingJourneys
