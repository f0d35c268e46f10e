SPECIFICATION ReadsSpec
CONSTANTS
    s1 = s1  sX = sX  a1 = a1  aX = aX  r1 = r1  r2 = r2
    Bookings = {b1, b2}
    NoSlot = NoSlot
    Slots <- MCSlots
    ScheduleIds = {s1, sX}
    Schedules = {s1}
    Seats = {a1, aX}
    SeatsOf <- MCSeatsOf
    Readers = {r1, r2}
    Asks <- MCAsks
    TTL = 2
INVARIANT InvalidatedAfterEveryMutation
