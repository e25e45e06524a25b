SPECIFICATION HistorySpec
CONSTANTS
    TelemetryOnly = FALSE
    MinimumSpeed = 2
    MaximumSpeed = 2
    EmergencyTimeout = 1
    CommandTimeout = 1
    HallAcquisitionTimeout = 2
    HallLossTimeout = 1
    ReconnectPeriod = 1
    MaxBatch = 2
    Velocities <- MCVelocities
    Feedbacks <- MCFeedbacks
PROPERTIES
    FeedbackBeforeAuthority
